---- MODULE Spec2Model ----
(***************************************************************************)
(* Model of the scoring pipeline of the sAIlor backend                     *)
(* (src/sAIlor_webapp/backend/app/main.py): the POI fetcher with its       *)
(* on-disk cache, the score converters, the risk model and the /analyze    *)
(* orchestrator.                                                           *)
(*                                                                         *)
(* Conventions.  Python's None is the option record None; Some(x) wraps a  *)
(* present value.  Latitudes and longitudes are integers in units of 1e-6  *)
(* degree.  A cache file is a sequence of JSON tokens; a write replaces    *)
(* the tokens from offset 0 and keeps whatever lies beyond its end, as a   *)
(* write(2) on a file opened before somebody else wrote does.              *)
(***************************************************************************)
EXTENDS Integers, Sequences, FiniteSets, TLC

VARIABLES
    now,          \* time.time(), in seconds
    requestsOk,   \* REQUESTS_OK: the HTTP library was imported
    workers,      \* how many worker threads serve calls
    cache,        \* POI_CACHE_DIR: cache key -> file
    proc,         \* per worker: position in fetch_pois_overpass and its locals
    fill,         \* history: per cache key, the last write of a live result
    ncalls,       \* history: how many calls were made
    conv,         \* the score converters' inputs and outputs (converter runs)
    raster,       \* GEO_OK, POP_TIF_PATH and what the raster holds at the request's place
    popMax,       \* POP_MAX_DENSITY
    areq,         \* the /analyze request in progress and its response
    ml,           \* MODEL and TO_DF, the globals load_ml_model sets
    preq,         \* the /predict request and its response
    obs           \* history: the answers of /analyze, where they are recorded

vars == <<now, requestsOk, workers, cache, proc, fill, ncalls, conv, raster,
          popMax, areq, ml, preq, obs>>

-----------------------------------------------------------------------------
(* Bounds of the model *)

Tick == 1800
MaxTicks == 2
MaxCalls == 2
MaxRequests == 1
MaxPois == 8
MaxSteps == 5
MaxRuns == 2

(* Program constants *)

CacheTTL == 3600
NeutralDemand == 60
DefaultMaxDensity == 5000
NoPoiScore == 20
NeutralCompetition == 50
CompetitionFactor == 15
NoSignalCompetition == 45
FallbackCompetition == 55
BaseRisk == 50
PoiCap == 50

Procs == {1, 2}

-----------------------------------------------------------------------------
(* Option values *)

None == [some |-> FALSE, v |-> 0]
Some(x) == [some |-> TRUE, v |-> x]

\* Python truthiness of an optional number: None and 0 are falsy
Truthy(o) == o.some /\ o.v # 0

\* a or b
PyOr(a, b) == IF Truthy(a) THEN a ELSE b

-----------------------------------------------------------------------------
(* Overpass response elements and POIs *)

NoCenter == [lat |-> None, lon |-> None]

eNode == [lat |-> Some(12971600), lon |-> Some(77594600), center |-> NoCenter,
          name |-> Some("Brew"), type |-> Some("node")]
eWay == [lat |-> None, lon |-> None,
         center |-> [lat |-> Some(12971900), lon |-> Some(77594100)],
         name |-> None, type |-> Some("way")]
eNoCoord == [lat |-> None, lon |-> None, center |-> NoCenter,
             name |-> Some("Ghost"), type |-> Some("relation")]
eNoType == [lat |-> Some(12971700), lon |-> Some(77594700), center |-> NoCenter,
            name |-> None, type |-> None]

\* the bodies a 200 reply of the Overpass API can carry ("elements")
Responses ==
    { <<>>, <<eNoCoord, eWay>>, <<eNode, eWay>>, <<eNoType>> }

\* what requests.post / raise_for_status / response.json can end in
QueryFailures == {"network_error", "timeout", "http_error", "invalid_json"}

\* lines 359-363: an element is skipped when lat0 or lon0 is None
ElementLat(e) == PyOr(e.lat, e.center.lat)
ElementLon(e) == PyOr(e.lon, e.center.lon)
ElementSkipped(e) == ~ElementLat(e).some \/ ~ElementLon(e).some

\* line 370: element["type"] raises KeyError when the key is missing
ElementRaises(e) == ~ElementSkipped(e) /\ ~e.type.some

\* lines 365-371
ElementPoi(e) ==
    [lat |-> ElementLat(e).v, lon |-> ElementLon(e).v,
     name |-> IF e.name.some THEN e.name.v ELSE "Unnamed",
     type |-> e.type.v]

RECURSIVE ParsePois(_)
ParsePois(elements) ==
    IF elements = <<>> THEN <<>>
    ELSE IF ElementSkipped(Head(elements)) THEN ParsePois(Tail(elements))
    ELSE <<ElementPoi(Head(elements))>> \o ParsePois(Tail(elements))

ParseRaises(elements) == \E i \in 1..Len(elements) : ElementRaises(elements[i])

-----------------------------------------------------------------------------
(* The cache file's content: JSON tokens *)

TokOpen == [tok |-> "["]
TokClose == [tok |-> "]"]
TokJunk == [tok |-> "junk"]
TokObj(p) == [tok |-> "obj", poi |-> p]

\* json.dump(pois, f): "[", one object per POI, "]"
JsonDump(pois) ==
    <<TokOpen>> \o [i \in 1..Len(pois) |-> TokObj(pois[i])] \o <<TokClose>>

\* json.load succeeds on exactly the texts "[" obj* "]"
JsonValid(text) ==
    /\ Len(text) >= 2
    /\ text[1] = TokOpen
    /\ text[Len(text)] = TokClose
    /\ \A i \in 2..(Len(text) - 1) : text[i].tok = "obj"

JsonLoad(text) == [i \in 1..(Len(text) - 2) |-> text[i + 1].poi]

\* write `data` at offset 0 of a file holding `old`
WriteAt0(old, data) ==
    IF Len(data) >= Len(old) THEN data
    ELSE data \o SubSeq(old, Len(data) + 1, Len(old))

NoFile == [exists |-> FALSE, mtime |-> 0, content |-> <<>>]
FileOf(t, text) == [exists |-> TRUE, mtime |-> t, content |-> text]

-----------------------------------------------------------------------------
(* Cache keys *)

\* f"{x:.5f}" of a coordinate given in 1e-6 degree, as a count of 1e-5 degree
Round5(x) == (x + 5) \div 10

TagsCafe == <<"amenity", "cafe">>
TagsGym == <<"leisure", "fitness_centre">>

poi_cache_key(lat, lon, r, tags) == <<Round5(lat), Round5(lon), r, tags>>

\* the calls the model makes: the first two differ only beyond the fifth
\* decimal of the latitude, the third asks for other tags
FetchArgs ==
    { [lat |-> 12971601, lon |-> 77594602, radius_m |-> 250, tags |-> TagsCafe],
      [lat |-> 12971604, lon |-> 77594602, radius_m |-> 250, tags |-> TagsCafe],
      [lat |-> 12971601, lon |-> 77594602, radius_m |-> 250, tags |-> TagsGym] }

\* mutant: the tag filter is left out of the key
KeyOfPlace(a) == poi_cache_key(a.lat, a.lon, a.radius_m, TagsCafe)

\* lines 322-324: the key of a call
KeyOf(a) == poi_cache_key(a.lat, a.lon, a.radius_m, a.tags)

\* the fetch of the end-to-end scenario: cafes within 500 m
ScenarioArgs == [lat |-> 12971601, lon |-> 77594602, radius_m |-> 500, tags |-> TagsCafe]

FetchKeys == { KeyOf(a) : a \in FetchArgs }

Keys == FetchKeys \cup {KeyOf(ScenarioArgs)}

-----------------------------------------------------------------------------
(* fetch_pois_overpass, one action per step that reads or writes shared state *)

\* ok: the file is what a call wrote completely, at time `at`
NoFill == [ok |-> FALSE, at |-> 0]

IdleProc ==
    [pc |-> "idle", args |-> CHOOSE a \in FetchArgs : TRUE, pois |-> <<>>,
     result |-> <<>>, outcome |-> "none", source |-> "none", issued |-> 0,
     age |-> -1, sinceFill |-> -1, readBad |-> FALSE, liveOk |-> FALSE,
     parsed |-> FALSE, wroteOk |-> FALSE]

\* the call of worker p ends with the locals rec
Finish(p, rec) ==
    proc' = [proc EXCEPT ![p] = [rec EXCEPT !.pc = "done"]]

\* lines 311-320: entry; without the HTTP library the call returns [] at once
BeginFetch(p, a) ==
    /\ proc[p].pc \in {"idle", "done"}
    /\ p <= workers
    /\ LET rec == [IdleProc EXCEPT !.args = a] IN
       IF requestsOk
       THEN /\ proc' = [proc EXCEPT ![p] = [rec EXCEPT !.pc = "check"]]
       ELSE Finish(p, [rec EXCEPT !.outcome = "returned", !.source = "disabled"])

\* fetch_pois_overpass called on its own
FetchCall(p, a) ==
    /\ ncalls < MaxCalls
    /\ ncalls' = ncalls + 1
    /\ BeginFetch(p, a)
    /\ UNCHANGED <<now, requestsOk, workers, cache, fill, conv, raster, popMax, ml, preq, obs, areq>>

\* mutant: the age test lets an entry of exactly the TTL through
CacheFreshInclusive(f, t) == f.exists /\ t - f.mtime <= CacheTTL

\* line 323: cache_fp.exists() and time.time() - st_mtime < 3600
CacheFresh(f, t) == f.exists /\ t - f.mtime < CacheTTL

FetchCheckCache(p) ==
    /\ proc[p].pc = "check"
    /\ LET k == KeyOf(proc[p].args) IN
       proc' = [proc EXCEPT ![p] =
                   [@ EXCEPT !.age = IF cache[k].exists THEN now - cache[k].mtime
                                     ELSE -1,
                             !.sinceFill = IF fill[k].ok THEN now - fill[k].at
                                           ELSE -1,
                             !.pc = IF CacheFresh(cache[k], now)
                                    THEN "read" ELSE "query"]]
    /\ UNCHANGED <<now, requestsOk, workers, cache, fill, ncalls, conv, raster, popMax, ml, preq, obs, areq>>

\* mutant: whatever can be read is returned
CacheHitUnparsed(text, readable) == readable

\* lines 324-328: what the read returns, if it returns
CacheHit(text, readable) == readable /\ JsonValid(text)

\* lines 324-330: open, json.load, return; any exception falls through to the
\* live query.  readable = FALSE is an open() or read() that raises.
FetchReadCache(p, readable) ==
    /\ proc[p].pc = "read"
    /\ LET text == cache[KeyOf(proc[p].args)].content IN
       IF CacheHit(text, readable)
       THEN Finish(p, [proc[p] EXCEPT !.result = JsonLoad(text),
                                      !.outcome = "returned", !.source = "cache"])
       ELSE /\ proc' = [proc EXCEPT ![p] = [@ EXCEPT !.readBad = TRUE, !.pc = "query"]]
    /\ UNCHANGED <<now, requestsOk, workers, cache, fill, ncalls, conv, raster, popMax, ml, preq, obs, areq>>

\* mutant: only requests' own exceptions are caught
QueryFailureUncaught(why) ==
    IF why = "invalid_json" THEN [outcome |-> "raised", result |-> <<>>]
    ELSE [outcome |-> "returned", result |-> <<>>]

\* lines 349-354: what a failed live query makes the call do
QueryFailureOutcome(why) == [outcome |-> "returned", result |-> <<>>]

\* mutant: the empty result of a failed query is written to the cache
CacheAfterQueryFailureStored(p) ==
    [cache EXCEPT ![KeyOf(proc[p].args)] = FileOf(now, JsonDump(<<>>))]

\* lines 349-354: the except clauses return before the cache is written
CacheAfterQueryFailure(p) == cache

\* lines 344-354: the live query fails: [] is returned, nothing is written
FetchQueryFails(p, why) ==
    /\ proc[p].pc = "query"
    /\ Finish(p, [proc[p] EXCEPT !.issued = @ + 1,
                                 !.outcome = QueryFailureOutcome(why).outcome,
                                 !.result = QueryFailureOutcome(why).result,
                                 !.source = why])
    /\ cache' = CacheAfterQueryFailure(p)
    /\ UNCHANGED <<now, requestsOk, workers, fill, ncalls, conv, raster, popMax, ml, preq, obs, areq>>

\* lines 344-371: the live query answers; the elements are parsed.  A KeyError
\* of the parse loop is not caught inside fetch_pois_overpass.
FetchQueryAnswers(p, elements) ==
    /\ proc[p].pc = "query"
    /\ IF ParseRaises(elements)
       THEN Finish(p, [proc[p] EXCEPT !.issued = @ + 1, !.liveOk = TRUE,
                                      !.outcome = "raised", !.source = "live"])
       ELSE /\ proc' = [proc EXCEPT ![p] =
                           [@ EXCEPT !.issued = @ + 1, !.liveOk = TRUE,
                                     !.parsed = TRUE,
                                     !.pois = ParsePois(elements), !.pc = "wopen"]]
    /\ UNCHANGED <<now, requestsOk, workers, cache, fill, ncalls, conv, raster, popMax, ml, preq, obs, areq>>

\* line 375: open(cache_fp, "w") truncates the file; a failure is swallowed
\* (lines 378-379) and the call returns pois
FetchOpenCache(p, ok) ==
    /\ proc[p].pc = "wopen"
    /\ IF ok
       THEN /\ cache' = [cache EXCEPT ![KeyOf(proc[p].args)] = FileOf(now, <<>>)]
            /\ fill' = [fill EXCEPT ![KeyOf(proc[p].args)] = NoFill]
            /\ proc' = [proc EXCEPT ![p] = [@ EXCEPT !.pc = "wflush"]]
       ELSE /\ UNCHANGED <<cache, fill>>
            /\ Finish(p, [proc[p] EXCEPT !.result = proc[p].pois,
                                         !.outcome = "returned", !.source = "live"])
    /\ UNCHANGED <<now, requestsOk, workers, ncalls, conv, raster, popMax, ml, preq, obs, areq>>

\* mutant: an empty result is not written
CacheTextSkipsEmpty(pois) == IF pois = <<>> THEN <<>> ELSE JsonDump(pois)

\* line 376: the text json.dump hands to the file
CacheText(pois) == JsonDump(pois)

\* lines 376-382: json.dump and close write the text at offset 0; a failing
\* write leaves the first n tokens only.  Then the call returns pois.
FetchWriteCache(p, n) ==
    /\ proc[p].pc = "wflush"
    /\ LET k == KeyOf(proc[p].args)
           text == CacheText(proc[p].pois)
       IN /\ n \in 0..Len(text)
          /\ cache' = [cache EXCEPT ![k] =
                          FileOf(now, WriteAt0(cache[k].content, SubSeq(text, 1, n)))]
          /\ fill' = [fill EXCEPT ![k] = [ok |-> (n = Len(text)), at |-> now]]
          /\ Finish(p, [proc[p] EXCEPT !.result = proc[p].pois,
                                       !.outcome = "returned", !.source = "live",
                                       !.wroteOk = (n = Len(text))])
    /\ UNCHANGED <<now, requestsOk, workers, ncalls, conv, raster, popMax, ml, preq, obs, areq>>

\* the clock
AdvanceTime ==
    /\ now + Tick <= MaxTicks * Tick
    /\ now' = now + Tick
    /\ UNCHANGED <<requestsOk, workers, cache, proc, fill, ncalls, conv, raster, popMax, ml, preq, obs, areq>>

-----------------------------------------------------------------------------
(* The fetcher called directly *)

NoConv == [fn |-> "none", a |-> 0, b |-> 0, n |-> 0, prev |-> 0, cur |-> 0]

\* os.getenv("POP_MAX_DENSITY"): unset, not a number, or a number
EnvUnset == [set |-> FALSE, num |-> FALSE, v |-> 0]
EnvBad == [set |-> TRUE, num |-> FALSE, v |-> 0]
EnvNum(x) == [set |-> TRUE, num |-> TRUE, v |-> x]

\* the environment of the density sampler: geo libraries, POP_TIF_PATH, and
\* what opening and averaging the raster around the request's place gives
RasterEnv(geo, path, read, mean) ==
    [geoOk |-> geo, path |-> path, read |-> read, mean |-> mean]

NoRaster == RasterEnv(FALSE, "unset", "raises", 0)

\* no /analyze request yet
NoRequest == [pc |-> "idle"]

\* lines 46-47, 69-79: no model file in the cache directory; MODEL stays None
\* and TO_DF is the fallback frame builder
NoModel == [MODEL |-> "none", TO_DF |-> "simple"]

\* no /predict request yet
NoPrediction == [pc |-> "idle"]

\* the answers of /analyze are not recorded; limit is the number of requests
\* a behaviour makes
NoObserver == [on |-> FALSE, limit |-> MaxRequests, runs |-> <<>>]

\* the files the cache directory may hold at start: none, a good one, a
\* damaged one
InitFiles ==
    { NoFile,
      FileOf(0, JsonDump(ParsePois(<<eNoCoord, eWay>>))),
      FileOf(0, <<TokOpen, TokJunk>>) }

\* the cache directories the direct calls start from
FetchCaches ==
    { [k \in Keys |-> IF k \in FetchKeys THEN c[k] ELSE NoFile] :
      c \in [FetchKeys -> InitFiles] }

InitFetch ==
    /\ now = 0
    /\ requestsOk \in BOOLEAN
    /\ workers = 2
    /\ cache \in FetchCaches
    /\ proc = [p \in Procs |-> IdleProc]
    /\ fill = [k \in Keys |-> NoFill]
    /\ ncalls = 0
    /\ conv = NoConv
    /\ raster = NoRaster
    /\ popMax = EnvUnset
    /\ areq = NoRequest
    /\ ml = NoModel
    /\ preq = NoPrediction
    /\ obs = NoObserver

NextFetch ==
    \/ \E p \in Procs, a \in FetchArgs : FetchCall(p, a)
    \/ \E p \in Procs : FetchCheckCache(p)
    \/ \E p \in Procs, readable \in BOOLEAN : FetchReadCache(p, readable)
    \/ \E p \in Procs, why \in QueryFailures : FetchQueryFails(p, why)
    \/ \E p \in Procs, elements \in Responses : FetchQueryAnswers(p, elements)
    \/ \E p \in Procs, ok \in BOOLEAN : FetchOpenCache(p, ok)
    \/ \E p \in Procs : \E n \in 0..Len(CacheText(proc[p].pois)) : FetchWriteCache(p, n)
    \/ AdvanceTime

\* two workers
SpecFetch == InitFetch /\ [][NextFetch]_vars

\* one call at a time
InitFetchSeq ==
    /\ now = 0
    /\ requestsOk \in BOOLEAN
    /\ workers = 1
    /\ cache \in FetchCaches
    /\ proc = [p \in Procs |-> IdleProc]
    /\ fill = [k \in Keys |-> NoFill]
    /\ ncalls = 0
    /\ conv = NoConv
    /\ raster = NoRaster
    /\ popMax = EnvUnset
    /\ areq = NoRequest
    /\ ml = NoModel
    /\ preq = NoPrediction
    /\ obs = NoObserver

SpecFetchSeq == InitFetchSeq /\ [][NextFetch]_vars

-----------------------------------------------------------------------------
(* Score converters.  A density is an integer count of 1/100 of the raster's *)
(* unit; a radius is a multiple of 10 m.                                     *)

Max(a, b) == IF a >= b THEN a ELSE b
Min(a, b) == IF a <= b THEN a ELSE b

\* Python's round(num / den) for den > 0: to nearest, ties to even
RoundHalfEven(num, den) ==
    LET q == num \div den
        r == num - q * den
    IN IF 2 * r < den THEN q
       ELSE IF 2 * r > den THEN q + 1
       ELSE IF q % 2 = 0 THEN q ELSE q + 1

\* mutant: the upper limit is not applied
clamp_score_unbounded(x, lo, hi) == Max(lo, x)

\* lines 204-208, for the integers its callers hand it
clamp_score(x, lo, hi) == Max(lo, Min(hi, x))

\* POP_MAX_DENSITY: unset, not a number, or a number
\* lines 283-292: the scale in force
MaxDensityInForce(max_val, env) ==
    LET m == IF max_val.some THEN max_val.v
             ELSE IF env.set /\ env.num THEN env.v
             ELSE DefaultMaxDensity
    IN IF m <= 0 THEN DefaultMaxDensity ELSE m

\* mutant: an absent density is scored as a density of zero
density_to_score_absent_as_zero(mean_density, max_val, env) ==
    clamp_score(RoundHalfEven(IF mean_density.some THEN mean_density.v ELSE 0,
                              MaxDensityInForce(max_val, env)),
                0, 100)

\* lines 274-298: int(round(100.0 * (mean_density / max_val))), clamped;
\* 100 * (d / 100) / m = d / m for a density of d hundredths
density_to_score(mean_density, max_val, env) ==
    IF ~mean_density.some THEN NeutralDemand
    ELSE clamp_score(RoundHalfEven(mean_density.v, MaxDensityInForce(max_val, env)),
                     0, 100)

\* lines 384-403, with pi = 355/113 and q = radius_m / 10:
\* density * 15 = 15 n / (pi (radius_m/1000)^2) = 3390000 n / (71 q^2)
competition_score_from_pois(pois, radius_m) ==
    LET q == radius_m \div 10 IN
    IF pois = <<>> THEN NoPoiScore
    ELSE IF q * q <= 0 THEN NeutralCompetition
    ELSE clamp_score(RoundHalfEven(226000 * CompetitionFactor * Len(pois), 71 * q * q),
                     0, 100)

-----------------------------------------------------------------------------
(* Converter runs: one converter applied to a growing input *)

Radii == {0, 100, 250, 500, 1000, 5000}
MaxVals == {None, Some(2), Some(50), Some(5000), Some(0), Some(-10)}
Envs == {EnvUnset, EnvBad, EnvNum(50), EnvNum(0)}
DensityIncrements == {1, 2500, 100000}

SamplePoi == ElementPoi(eNode)

CompetitionRun(r) ==
    [fn |-> "competition", pois |-> <<>>, radius_m |-> r, density |-> 0,
     max_val |-> None, env |-> EnvUnset, steps |-> 0,
     prev |-> competition_score_from_pois(<<>>, r),
     cur |-> competition_score_from_pois(<<>>, r)]

DensityRun(m, e) ==
    [fn |-> "density", pois |-> <<>>, radius_m |-> 0, density |-> 0,
     max_val |-> m, env |-> e, steps |-> 0,
     prev |-> density_to_score(Some(0), m, e),
     cur |-> density_to_score(Some(0), m, e)]

\* one more POI in the sequence
CompetitionStep ==
    /\ conv.fn = "competition"
    /\ Len(conv.pois) < MaxPois
    /\ conv' = [conv EXCEPT
                  !.pois = Append(@, SamplePoi),
                  !.prev = conv.cur,
                  !.cur = competition_score_from_pois(Append(conv.pois, SamplePoi),
                                                      conv.radius_m)]
    /\ UNCHANGED <<now, requestsOk, workers, cache, proc, fill, ncalls, raster, popMax, ml, preq, obs, areq>>

\* a larger density
DensityStep(inc) ==
    /\ conv.fn = "density"
    /\ conv.steps < MaxSteps
    /\ conv' = [conv EXCEPT
                  !.density = @ + inc,
                  !.steps = @ + 1,
                  !.prev = conv.cur,
                  !.cur = density_to_score(Some(conv.density + inc), conv.max_val,
                                           conv.env)]
    /\ UNCHANGED <<now, requestsOk, workers, cache, proc, fill, ncalls, raster, popMax, ml, preq, obs, areq>>

InitConv ==
    /\ now = 0
    /\ requestsOk = TRUE
    /\ workers = 1
    /\ cache = [k \in Keys |-> NoFile]
    /\ proc = [p \in Procs |-> IdleProc]
    /\ fill = [k \in Keys |-> NoFill]
    /\ ncalls = 0
    /\ conv \in { CompetitionRun(r) : r \in Radii }
                \cup { DensityRun(m, e) : m \in MaxVals, e \in Envs }
    /\ raster = NoRaster
    /\ popMax = EnvUnset
    /\ areq = NoRequest
    /\ ml = NoModel
    /\ preq = NoPrediction
    /\ obs = NoObserver

NextConv ==
    \/ CompetitionStep
    \/ \E inc \in DensityIncrements : DensityStep(inc)

SpecConv == InitConv /\ [][NextConv]_vars

-----------------------------------------------------------------------------
(* Text.  A Python str is a sequence of one-character strings. *)

UpperLetters == <<"A", "B", "C", "D", "E", "F", "G", "H", "I", "J", "K", "L", "M",
                  "N", "O", "P", "Q", "R", "S", "T", "U", "V", "W", "X", "Y", "Z">>
LowerLetters == <<"a", "b", "c", "d", "e", "f", "g", "h", "i", "j", "k", "l", "m",
                  "n", "o", "p", "q", "r", "s", "t", "u", "v", "w", "x", "y", "z">>
Digits == <<"0", "1", "2", "3", "4", "5", "6", "7", "8", "9">>

IsSpace(c) == c \in {" ", "\t", "\n"}

LowerOf == [c \in {UpperLetters[i] : i \in 1..26} |->
               LowerLetters[CHOOSE i \in 1..26 : UpperLetters[i] = c]]

LowerChar(c) == IF c \in DOMAIN LowerOf THEN LowerOf[c] ELSE c

\* str.lower
StrLower(t) == [i \in 1..Len(t) |-> LowerChar(t[i])]

RECURSIVE LStrip(_)
LStrip(t) == IF t # <<>> /\ IsSpace(Head(t)) THEN LStrip(Tail(t)) ELSE t

RECURSIVE RStrip(_)
RStrip(t) ==
    IF t # <<>> /\ IsSpace(t[Len(t)]) THEN RStrip(SubSeq(t, 1, Len(t) - 1)) ELSE t

\* str.strip
StrStrip(t) == RStrip(LStrip(t))

\* str.replace for one-character arguments
StrReplace(t, a, b) == [i \in 1..Len(t) |-> IF t[i] = a THEN b ELSE t[i]]

\* sub in t
StrContains(t, sub) ==
    \E i \in 0..(Len(t) - Len(sub)) : SubSeq(t, i + 1, i + Len(sub)) = sub

\* t.split(sep) for a one-character sep
RECURSIVE StrSplit(_, _)
StrSplit(t, sep) ==
    IF \A i \in 1..Len(t) : t[i] # sep THEN <<t>>
    ELSE LET j == CHOOSE i \in 1..Len(t) : t[i] = sep /\ \A h \in 1..(i - 1) : t[h] # sep
         IN <<SubSeq(t, 1, j - 1)>> \o StrSplit(SubSeq(t, j + 1, Len(t)), sep)

DigitValue(c) == (CHOOSE i \in 1..10 : Digits[i] = c) - 1

RECURSIVE DigitsValue(_)
DigitsValue(t) ==
    IF t = <<>> THEN 0
    ELSE 10 * DigitsValue(SubSeq(t, 1, Len(t) - 1)) + DigitValue(t[Len(t)])

IsDigits(u) == u # <<>> /\ \A i \in 1..Len(u) : \E d \in 1..10 : Digits[d] = u[i]

\* int(t): blanks around, an optional sign, digits; None stands for the
\* ValueError (an underscore between digits does not occur in the inputs)
ParseInt(t) ==
    LET u == StrStrip(t) IN
    IF IsDigits(u) THEN Some(DigitsValue(u))
    ELSE IF u # <<>> /\ Head(u) = "+" /\ IsDigits(Tail(u)) THEN Some(DigitsValue(Tail(u)))
    ELSE IF u # <<>> /\ Head(u) = "-" /\ IsDigits(Tail(u)) THEN Some(-DigitsValue(Tail(u)))
    ELSE None

-----------------------------------------------------------------------------
(* Business types (lines 142-202) *)

s_cafe == <<"c", "a", "f", "e">>
s_gym == <<"g", "y", "m">>
s_stationery == <<"s", "t", "a", "t", "i", "o", "n", "e", "r", "y">>
s_hostel_mess == <<"h", "o", "s", "t", "e", "l", "_", "m", "e", "s", "s">>
s_restaurant == <<"r", "e", "s", "t", "a", "u", "r", "a", "n", "t">>
s_retail == <<"r", "e", "t", "a", "i", "l">>

TagsStationery == <<"shop", "stationery">>
TagsRestaurant == <<"amenity", "restaurant">>
TagsGeneral == <<"shop", "general">>

BUSINESS_KEYS == {s_cafe, s_gym, s_stationery, s_hostel_mess, s_restaurant, s_retail}

BUSINESS_TYPES(key) ==
    CASE key = s_cafe ->
           [label |-> <<"C", "a", "f", "e">>, typ_budget |-> <<8, 25>>, typ_seating |-> <<15, 60>>,
            poi_tags |-> TagsCafe]
      [] key = s_gym ->
           [label |-> <<"G", "y", "m", " ", "/", " ", "F", "i", "t", "n", "e", "s", "s">>, typ_budget |-> <<30, 120>>,
            typ_seating |-> <<0, 0>>, poi_tags |-> TagsGym]
      [] key = s_stationery ->
           [label |-> <<"S", "t", "a", "t", "i", "o", "n", "e", "r", "y", " ", "/", " ", "P", "r", "i", "n", "t">>, typ_budget |-> <<3, 12>>,
            typ_seating |-> <<0, 0>>, poi_tags |-> TagsStationery]
      [] key = s_hostel_mess ->
           [label |-> <<"H", "o", "s", "t", "e", "l", " ", "M", "e", "s", "s">>, typ_budget |-> <<10, 40>>,
            typ_seating |-> <<40, 200>>, poi_tags |-> TagsRestaurant]
      [] key = s_restaurant ->
           [label |-> <<"R", "e", "s", "t", "a", "u", "r", "a", "n", "t">>, typ_budget |-> <<15, 80>>,
            typ_seating |-> <<20, 100>>, poi_tags |-> TagsRestaurant]
      [] key = s_retail ->
           [label |-> <<"R", "e", "t", "a", "i", "l", " ", "S", "t", "o", "r", "e">>, typ_budget |-> <<5, 30>>,
            typ_seating |-> <<0, 0>>, poi_tags |-> TagsGeneral]

\* mutant: a hyphen is not turned into an underscore
normalize_business_type_keeps_hyphen(name) ==
    IF name = <<>> THEN s_cafe
    ELSE StrReplace(StrLower(StrStrip(name)), " ", "_")

\* lines 187-191
normalize_business_type(name) ==
    IF name = <<>> THEN s_cafe
    ELSE StrReplace(StrReplace(StrLower(StrStrip(name)), " ", "_"), "-", "_")

\* lines 199-202
ProfileOfKey(business_type_norm) ==
    IF business_type_norm \in BUSINESS_KEYS
    THEN BUSINESS_TYPES(business_type_norm)
    ELSE BUSINESS_TYPES(s_cafe)

get_business_type_info(business_type) ==
    ProfileOfKey(normalize_business_type(business_type))

\* lines 193-197
get_poi_tags_for_business_type(business_type) ==
    get_business_type_info(business_type).poi_tags

-----------------------------------------------------------------------------
(* Coordinates (lines 210-224); a coordinate is a count of 1e-6 degree *)

validate_coordinates(lat, lon) ==
    IF ~lat.some \/ ~lon.some THEN FALSE
    ELSE IF ~(-90000000 <= lat.v /\ lat.v <= 90000000) THEN FALSE
    ELSE IF ~(-180000000 <= lon.v /\ lon.v <= 180000000) THEN FALSE
    ELSE TRUE

-----------------------------------------------------------------------------
(* Demand from the population raster (lines 228-272) *)

\* a mean that is not finite (float32 overflow, infinite cells)
Infinite == [some |-> TRUE, v |-> 0, inf |-> TRUE]

\* None for every soft failure: no libraries, path unset or not on disk, an
\* exception of the raster access, no valid cell (the mean is NaN)
mean_density_from_raster(env) ==
    IF ~env.geoOk THEN None
    ELSE IF env.path # "file" THEN None
    ELSE IF env.read = "raises" THEN None
    ELSE IF env.read = "nodata" THEN None
    ELSE IF env.read = "inf" THEN Infinite
    ELSE Some(env.mean)

-----------------------------------------------------------------------------
(* Risk (lines 407-463) *)

s_default_hours == <<"0", "8", ":", "0", "0", "-", "2", "2", ":", "0", "0">>

\* mutant: the difference of the hours, not wrapped around midnight
OpenHoursNoWrap(sh, eh) ==
    IF sh.some /\ eh.some THEN Some(eh.v - sh.v) ELSE None

\* line 441; None when either int() raised
OpenHours(sh, eh) ==
    IF sh.some /\ eh.some THEN Some((eh.v - sh.v) % 24) ELSE None

\* lines 439-440: start, end = parts; None when the unpacking raises
SpanOfParts(parts) ==
    IF Len(parts) # 2 THEN None
    ELSE OpenHours(ParseInt(StrSplit(parts[1], ":")[1]),
                   ParseInt(StrSplit(parts[2], ":")[1]))

\* mutant: without an hours text there is no span
HoursSpanOfGivenText(hours_str) ==
    IF hours_str.some /\ hours_str.v # <<>> THEN SpanOfParts(StrSplit(hours_str.v, "-"))
    ELSE None

\* lines 438-441: the span of the opening hours; None when the parse raises
HoursSpan(hours_str) ==
    SpanOfParts(StrSplit(IF hours_str.some /\ hours_str.v # <<>> THEN hours_str.v
                         ELSE s_default_hours, "-"))

\* mutant: a budget above the typical range earns nothing
BudgetAdjustmentNoCredit(budget_lakh, prof) ==
    IF budget_lakh < 10 * prof.typ_budget[1] THEN 15 ELSE 0

\* lines 420-425; budget_lakh counts tenths of a lakh
BudgetAdjustment(budget_lakh, prof) ==
    IF budget_lakh < 10 * prof.typ_budget[1] THEN 15
    ELSE IF budget_lakh > 10 * prof.typ_budget[2] THEN -10
    ELSE 0

\* mutant: a seating inside the typical range lowers the risk
SeatingAdjustmentCredit(seating, prof) ==
    IF prof.typ_seating[2] > 0
    THEN IF seating < prof.typ_seating[1] THEN 10
         ELSE IF seating > prof.typ_seating[2] THEN 5
         ELSE -5
    ELSE 0

\* lines 428-434
SeatingAdjustment(seating, prof) ==
    IF prof.typ_seating[2] > 0
    THEN IF seating < prof.typ_seating[1] THEN 10
         ELSE IF seating > prof.typ_seating[2] THEN 5
         ELSE 0
    ELSE 0

\* mutant: hours that were not understood count as long hours
SpanAdjustmentDefaultPenalty(open_h) ==
    IF ~open_h.some THEN 8
    ELSE IF open_h.v >= 16 THEN 13
    ELSE IF open_h.v >= 12 THEN 8
    ELSE 0

\* lines 443-450
SpanAdjustment(open_h) ==
    IF ~open_h.some THEN 0
    ELSE IF open_h.v >= 16 THEN 13
    ELSE IF open_h.v >= 12 THEN 8
    ELSE 0

\* lines 437-450
HoursAdjustment(hours_str) == SpanAdjustment(HoursSpan(hours_str))

\* mutant: the demand penalty reaches up to the neutral demand score
MarketAdjustmentNeutralPenalised(demand, competition) ==
    (IF demand <= 60 THEN 10 ELSE 0) + (IF competition >= 70 THEN 12 ELSE 0)

\* lines 453-459
MarketAdjustment(demand, competition) ==
    (IF demand <= 40 THEN 10 ELSE 0) + (IF competition >= 70 THEN 12 ELSE 0)

\* mutant: the accumulated risk is returned as it is
RiskOfProfileUnclamped(prof, budget_lakh, seating, hours_str, demand, competition) ==
    BaseRisk + BudgetAdjustment(budget_lakh, prof) + SeatingAdjustment(seating, prof)
      + HoursAdjustment(hours_str) + MarketAdjustment(demand, competition)

\* lines 417-461, given the profile
RiskOfProfile(prof, budget_lakh, seating, hours_str, demand, competition) ==
    clamp_score(BaseRisk + BudgetAdjustment(budget_lakh, prof)
                  + SeatingAdjustment(seating, prof) + HoursAdjustment(hours_str)
                  + MarketAdjustment(demand, competition),
                0, 100)

calculate_risk_score(business_type, budget_lakh, seating, hours_str, demand, competition) ==
    RiskOfProfile(get_business_type_info(business_type), budget_lakh, seating,
                  hours_str, demand, competition)

-----------------------------------------------------------------------------
(* Insights (lines 465-552).  A sentence is a record: its fixed text, and for *)
(* the location sentence the radius and the city it names.  The dashes of   *)
(* two sentences are written as hyphens.                                    *)

Sentence(text) == [text |-> text, radius_m |-> 0, city |-> None]

\* lines 477-496
GeneralPros(demand, risk, competition) ==
    (IF demand >= 65 THEN <<Sentence("Strong local demand near the chosen location.")>>
     ELSE IF demand >= 45 THEN <<Sentence("Moderate demand levels in the area.")>>
     ELSE <<>>)
    \o (IF competition <= 35
        THEN <<Sentence("Low market saturation-clear headroom for growth.")>>
        ELSE IF competition <= 60
        THEN <<Sentence("Moderate competition level allows for market entry.")>>
        ELSE <<>>)
    \o (IF risk <= 40 THEN <<Sentence("Operational risk appears manageable.")>>
        ELSE IF risk <= 60
        THEN <<Sentence("Moderate operational risk with careful planning needed.")>>
        ELSE <<>>)

GeneralCons(demand, risk, competition) ==
    (IF demand < 45
     THEN <<Sentence("Weak customer base; consider moving closer to high-footfall areas.")>>
     ELSE <<>>)
    \o (IF competition > 60
        THEN <<Sentence("Heavy competition within the catchment area.")>>
        ELSE <<>>)
    \o (IF risk > 60
        THEN <<Sentence("High operational risk due to budget, hours, or market conditions.")>>
        ELSE <<>>)

\* lines 501-538: the first branch whose key occurs in the normalized name
BranchOfKey(t) ==
    IF StrContains(t, s_cafe) THEN "cafe"
    ELSE IF StrContains(t, s_gym) THEN "gym"
    ELSE IF StrContains(t, s_stationery) THEN "stationery"
    ELSE IF StrContains(t, s_hostel_mess) THEN "hostel_mess"
    ELSE IF StrContains(t, s_restaurant) THEN "restaurant"
    ELSE IF StrContains(t, s_retail) THEN "retail"
    ELSE "none"

\* lines 499-538
CategoryBranch(business_type) == BranchOfKey(normalize_business_type(business_type))

CategoryPros(branch, demand, competition) ==
    CASE branch = "cafe" ->
           (IF competition > 60 THEN <<>>
            ELSE <<Sentence("Cafe format fits well with student/office crowd in this area.")>>)
           \o (IF demand >= 70
               THEN <<Sentence("High foot traffic area ideal for coffee shops.")>>
               ELSE <<>>)
      [] branch = "gym" ->
           (IF demand >= 60
            THEN <<Sentence("Good fitness interest in the area; group classes could work well.")>>
            ELSE <<>>)
           \o (IF competition <= 40
               THEN <<Sentence("Low gym density creates opportunity for fitness services.")>>
               ELSE <<>>)
      [] branch = "stationery" ->
           <<Sentence("Proximity to campus/offices favors stationery and print demand.")>>
           \o (IF demand >= 50
               THEN <<Sentence("Good potential for office supply and printing services.")>>
               ELSE <<>>)
      [] branch = "hostel_mess" ->
           (IF demand >= 55
            THEN <<Sentence("Student density favors mess and meal plan services.")>>
            ELSE <<>>)
           \o (IF competition <= 30
               THEN <<Sentence("Low competition in student dining sector.")>>
               ELSE <<>>)
      [] branch = "restaurant" ->
           (IF demand >= 60 THEN <<Sentence("Strong dining demand in the area.")>>
            ELSE <<>>)
           \o (IF competition <= 50
               THEN <<Sentence("Moderate restaurant competition allows for market entry.")>>
               ELSE <<>>)
      [] branch = "retail" ->
           (IF demand >= 55 THEN <<Sentence("Good retail potential in the area.")>>
            ELSE <<>>)
           \o (IF competition <= 40
               THEN <<Sentence("Low retail competition creates opportunity.")>>
               ELSE <<>>)
      [] OTHER -> <<>>

CategoryCons(branch, demand, competition) ==
    CASE branch = "cafe" /\ competition > 60 ->
           <<Sentence("Many cafes nearby-consider focusing on a niche (breakfast/late-night).")>>
      [] branch = "gym" /\ competition > 40 ->
           <<Sentence("Saturated fitness market; differentiate with unique offerings.")>>
      [] branch = "hostel_mess" /\ competition > 30 ->
           <<Sentence("High competition in student dining; focus on quality and pricing.")>>
      [] branch = "restaurant" /\ competition > 50 ->
           <<Sentence("High restaurant density; focus on unique cuisine or service.")>>
      [] branch = "retail" /\ competition > 40 ->
           <<Sentence("Saturated retail market; focus on specific product categories.")>>
      [] OTHER -> <<>>

\* lines 547-550: "Analysis covers {radius_m}m radius[ in {city}]."
\* mutant: the city is named whenever one is passed, empty or not
LocationSentenceAnyCity(city, radius_m) ==
    [text |-> "Analysis covers", radius_m |-> radius_m, city |-> city]

\* lines 547-550: f"Analysis covers {radius_m}m radius", " in {city}" for a
\* city that is not empty, and the full stop
LocationSentence(city, radius_m) ==
    [text |-> "Analysis covers", radius_m |-> radius_m,
     city |-> IF city.some /\ city.v # <<>> THEN city ELSE None]

InsightsOfBranch(branch, demand, risk, competition, city, radius_m) ==
    [pros |-> GeneralPros(demand, risk, competition)
                \o CategoryPros(branch, demand, competition)
                \o <<LocationSentence(city, radius_m)>>,
     cons |-> GeneralCons(demand, risk, competition)
                \o CategoryCons(branch, demand, competition)]

generate_insights(business_type, demand, risk, competition, city, radius_m) ==
    InsightsOfBranch(CategoryBranch(business_type), demand, risk, competition, city,
                     radius_m)

-----------------------------------------------------------------------------
(* POST /analyze (lines 556-682).  A budget counts tenths of a lakh. *)

s_this_area == <<"t", "h", "i", "s", " ", "a", "r", "e", "a">>

\* mutant: the request model puts no bounds on lat and lon
RequestAcceptedAnyCoordinates(r) ==
    /\ 100 <= r.radius_m /\ r.radius_m <= 5000
    /\ 1 <= r.budget_lakh /\ r.budget_lakh <= 10000
    /\ 0 <= r.seating_capacity /\ r.seating_capacity <= 1000

\* lines 556-568: the field constraints the request model enforces before the
\* handler runs
RequestAccepted(r) ==
    /\ r.lat.some => (-90000000 <= r.lat.v /\ r.lat.v <= 90000000)
    /\ r.lon.some => (-180000000 <= r.lon.v /\ r.lon.v <= 180000000)
    /\ 100 <= r.radius_m /\ r.radius_m <= 5000
    /\ 1 <= r.budget_lakh /\ r.budget_lakh <= 10000
    /\ 0 <= r.seating_capacity /\ r.seating_capacity <= 1000

\* lines 607, 616
HasCoordinates(r) == r.lat.some /\ r.lon.some

\* mutant: the raster is sampled for the first request of the process only
SampledDensityFirstOnly(r, env) ==
    IF r.use_population_density /\ HasCoordinates(r) /\ ncalls = 0
    THEN mean_density_from_raster(env)
    ELSE None

\* mutant: POIs are fetched whenever the request has coordinates
FetchesPoisAnySignal(r) == HasCoordinates(r)

\* line 616: the POI fetch is made for a request that asks for the competition
\* signal and has both coordinates
FetchesPois(r) == r.consider_competition /\ HasCoordinates(r)

\* lines 606-608
SampledDensity(r, env) ==
    IF r.use_population_density /\ HasCoordinates(r)
    THEN mean_density_from_raster(env)
    ELSE None

\* line 294: round() of a value that is not finite raises OverflowError
DensityToScoreRaises(mean_density) == mean_density = Infinite

\* lines 640-644; the density is printed rounded to one decimal (tenths)
Summary(r, mean_density, demand, risk, competition) ==
    [label |-> StrLower(get_business_type_info(r.business_type).label),
     location |-> IF r.city.some /\ r.city.v # <<>> THEN r.city.v ELSE s_this_area,
     demand |-> demand, risk |-> risk, competition |-> competition,
     density |-> IF mean_density.some THEN Some(RoundHalfEven(mean_density.v, 10))
                 ELSE None]

\* mutant: the whole list is returned
PoisOfResponseUncapped(pois) == pois

\* line 672: pois[:50] if pois else []
PoisOfResponse(pois) == SubSeq(pois, 1, Min(PoiCap, Len(pois)))

\* lines 656-673
ResponseOf(r, mean_density, demand, risk, competition, insights, pois) ==
    [summary |-> Summary(r, mean_density, demand, risk, competition),
     pros |-> insights.pros,
     cons |-> insights.cons,
     scores |-> [demand |-> demand, risk |-> risk, competition |-> competition],
     debug |-> [poi_count |-> Len(pois), mean_density |-> mean_density,
                raster_used |-> mean_density.some,
                business_type |-> r.business_type, radius_m |-> r.radius_m],
     pois |-> PoisOfResponse(pois)]

\* lines 635-673, given the risk score
ResponseWithRisk(r, mean_density, demand, risk, competition, pois) ==
    ResponseOf(r, mean_density, demand, risk, competition,
               generate_insights(r.business_type, demand, risk, competition, r.city,
                                 r.radius_m),
               pois)

\* lines 556-568, 600-603: the request is refused; the raster was not sampled
Rejected(r, code) == [pc |-> "rejected", req |-> r, status |-> code, sampled |-> FALSE]

\* lines 678-682: an exception that is no HTTPException becomes HTTP 500
Failed(r, sampled) == [pc |-> "failed", req |-> r, status |-> 500, sampled |-> sampled]

\* no POI fetch was made for the request
NoFetch == [outcome |-> "none", source |-> "none"]

\* mutant: an exception of the competition step counts as an empty result
CompetitionOfFetchEmptyOnRaise(outcome, pois, radius_m) ==
    competition_score_from_pois(pois, radius_m)

\* lines 617-623: the competition score after the fetch returned or raised
CompetitionOfFetch(outcome, pois, radius_m) ==
    IF outcome = "raised" THEN FallbackCompetition
    ELSE competition_score_from_pois(pois, radius_m)

\* history: an answer of /analyze as the observer records it
RunOf(a) ==
    [req |-> a.req, fetch |-> a.fetch, fetched |-> a.fetched, response |-> a.response]

\* history: the observer after the request's step
Observed(a) ==
    IF obs.on /\ a.pc = "responded" THEN [obs EXCEPT !.runs = Append(@, RunOf(a))]
    ELSE obs

\* lines 625-676: the risk score is computed and the response returned;
\* fetch records how the POI fetch of the request ended, fetched what it gave
Respond(r, mean_density, sampled, demand, competition, pois, fetch) ==
    \E risk \in {calculate_risk_score(r.business_type, r.budget_lakh,
                                      r.seating_capacity, r.open_hours, demand,
                                      competition)} :
        areq' = [pc |-> "responded", req |-> r, status |-> 200, sampled |-> sampled,
                 fetch |-> fetch, fetched |-> pois,
                 response |-> ResponseWithRisk(r, mean_density, demand, risk,
                                               competition, pois)]

\* lines 596-623: the request arrives.  It is validated, the demand score is
\* computed, and either the POI fetch begins (worker 1 runs it) or the
\* response is built with the baseline competition score.
AnalyzeStart(r) ==
    /\ areq.pc \in {"idle", "responded", "rejected", "failed"}
    /\ ncalls < obs.limit
    /\ ncalls' = ncalls + 1
    /\ \E mean_density \in {SampledDensity(r, raster)},
          sampled \in {r.use_population_density /\ HasCoordinates(r)} :
       IF ~RequestAccepted(r)
       THEN areq' = Rejected(r, 422) /\ UNCHANGED proc
       ELSE IF HasCoordinates(r) /\ ~validate_coordinates(r.lat, r.lon)
       THEN areq' = Rejected(r, 400) /\ UNCHANGED proc
       ELSE IF DensityToScoreRaises(mean_density)
       THEN areq' = Failed(r, sampled) /\ UNCHANGED proc
       ELSE IF FetchesPois(r)
       THEN /\ areq' = [pc |-> "fetching", req |-> r, mean_density |-> mean_density,
                        sampled |-> sampled,
                        demand |-> density_to_score(mean_density, None, popMax)]
            /\ BeginFetch(1, [lat |-> r.lat.v, lon |-> r.lon.v,
                              radius_m |-> r.radius_m,
                              tags |-> get_poi_tags_for_business_type(r.business_type)])
       ELSE /\ \E demand \in {density_to_score(mean_density, None, popMax)} :
                  Respond(r, mean_density, sampled, demand, NoSignalCompetition, <<>>,
                          NoFetch)
            /\ UNCHANGED proc
    /\ obs' = Observed(areq')
    /\ UNCHANGED <<now, requestsOk, workers, cache, fill, conv, raster, popMax, ml, preq>>

\* lines 619-676: the fetch has ended; an exception out of it gives the
\* fallback competition score and no POIs
AnalyzeFinish ==
    /\ areq.pc = "fetching"
    /\ proc[1].pc = "done"
    /\ \E pois \in {IF proc[1].outcome = "raised" THEN <<>> ELSE proc[1].result} :
       \E competition \in
              {CompetitionOfFetch(proc[1].outcome, pois, areq.req.radius_m)} :
          Respond(areq.req, areq.mean_density, areq.sampled, areq.demand,
                  competition, pois,
                  [outcome |-> proc[1].outcome, source |-> proc[1].source])
    /\ proc' = [proc EXCEPT ![1] = IdleProc]
    /\ obs' = Observed(areq')
    /\ UNCHANGED <<now, requestsOk, workers, cache, fill, ncalls, conv, raster, popMax, ml, preq>>

s_Gym == <<"G", "y", "m">>
s_long_hours == <<"0", "6", ":", "0", "0", "-", "2", "3", ":", "0", "0">>

\* the requests: with and without coordinates, one coordinate missing,
\* a latitude out of range, a longitude out of range
Places ==
    { <<None, None>>, <<Some(12971601), Some(77594602)>>, <<Some(12971601), None>>,
      <<Some(95000000), Some(77594602)>>, <<Some(12971601), Some(-181000000)>> }

Requests ==
    { [business_type |-> b, city |-> None, lat |-> pl[1], lon |-> pl[2],
       radius_m |-> 250, budget_lakh |-> 50, seating_capacity |-> 10,
       open_hours |-> Some(s_long_hours), use_population_density |-> u,
       consider_competition |-> c] :
      b \in {s_cafe, s_Gym}, pl \in Places, u \in BOOLEAN, c \in BOOLEAN }

\* the sampler's environments: no libraries, no path, no file, a failing read,
\* no valid cell, a low, a saturating, a negative and an infinite mean
Sampled(mean) == RasterEnv(TRUE, "file", "value", mean)

Rasters ==
    { NoRaster, RasterEnv(TRUE, "unset", "raises", 0),
      RasterEnv(TRUE, "missing", "raises", 0), RasterEnv(TRUE, "file", "raises", 0),
      RasterEnv(TRUE, "file", "nodata", 0), Sampled(1000), Sampled(600000),
      Sampled(-500), RasterEnv(TRUE, "file", "inf", 0) }

InitAnalyze ==
    /\ now = 0
    /\ requestsOk \in BOOLEAN
    /\ workers = 1
    /\ cache \in { [k \in Keys |-> f] : f \in InitFiles }
    /\ proc = [p \in Procs |-> IdleProc]
    /\ fill = [k \in Keys |-> NoFill]
    /\ ncalls = 0
    /\ conv = NoConv
    /\ \/ raster \in Rasters /\ popMax = EnvUnset
       \/ raster = Sampled(1000) /\ popMax \in {EnvNum(50), EnvBad}
    /\ areq = NoRequest
    /\ ml = NoModel
    /\ preq = NoPrediction
    /\ obs = NoObserver

NextAnalyze ==
    \/ \E r \in Requests : AnalyzeStart(r)
    \/ AnalyzeFinish
    \/ \E p \in Procs : FetchCheckCache(p)
    \/ \E p \in Procs, readable \in BOOLEAN : FetchReadCache(p, readable)
    \/ \E p \in Procs, why \in QueryFailures : FetchQueryFails(p, why)
    \/ \E p \in Procs, elements \in Responses : FetchQueryAnswers(p, elements)
    \/ \E p \in Procs, ok \in BOOLEAN : FetchOpenCache(p, ok)
    \/ \E p \in Procs : \E n \in 0..Len(CacheText(proc[p].pois)) : FetchWriteCache(p, n)
    \/ AdvanceTime

SpecAnalyze == InitAnalyze /\ [][NextAnalyze]_vars

-----------------------------------------------------------------------------
(* The end-to-end scenario: a cafe, 500 m, both signals asked for *)

s_Vellore == <<"V", "e", "l", "l", "o", "r", "e">>

ScenarioRequests ==
    { [business_type |-> s_cafe, city |-> Some(s_Vellore),
       lat |-> Some(ScenarioArgs.lat), lon |-> Some(ScenarioArgs.lon),
       radius_m |-> ScenarioArgs.radius_m, budget_lakh |-> bl, seating_capacity |-> st,
       open_hours |-> h, use_population_density |-> TRUE,
       consider_competition |-> TRUE] :
      bl \in {50, 100, 1000}, st \in {10, 30}, h \in {None, Some(s_long_hours)} }

\* no raster configured, a configured path without a file, a raster
ScenarioRasters ==
    { NoRaster, RasterEnv(TRUE, "unset", "raises", 0),
      RasterEnv(TRUE, "missing", "raises", 0), Sampled(1000) }

InitScenario ==
    /\ now = 0
    /\ requestsOk \in BOOLEAN
    /\ workers = 1
    /\ cache \in { [k \in Keys |-> f] : f \in InitFiles }
    /\ proc = [p \in Procs |-> IdleProc]
    /\ fill = [k \in Keys |-> NoFill]
    /\ ncalls = 0
    /\ conv = NoConv
    /\ raster \in ScenarioRasters
    /\ popMax = EnvUnset
    /\ areq = NoRequest
    /\ ml = NoModel
    /\ preq = NoPrediction
    /\ obs = NoObserver

NextScenario ==
    \/ \E r \in ScenarioRequests : AnalyzeStart(r)
    \/ AnalyzeFinish
    \/ \E p \in Procs : FetchCheckCache(p)
    \/ \E p \in Procs, readable \in BOOLEAN : FetchReadCache(p, readable)
    \/ \E p \in Procs, why \in QueryFailures : FetchQueryFails(p, why)
    \/ \E p \in Procs, elements \in Responses : FetchQueryAnswers(p, elements)
    \/ \E p \in Procs, ok \in BOOLEAN : FetchOpenCache(p, ok)
    \/ \E p \in Procs : \E n \in 0..Len(CacheText(proc[p].pois)) : FetchWriteCache(p, n)
    \/ AdvanceTime

SpecScenario == InitScenario /\ [][NextScenario]_vars

-----------------------------------------------------------------------------
(* calculate_risk_score called on its own *)

\* "HH" of an hour
TwoDigits(h) == <<Digits[(h \div 10) + 1], Digits[(h % 10) + 1]>>

\* the documented form of open_hours, "HH:MM-HH:MM", for full hours
FormatHours(sh, eh) ==
    TwoDigits(sh) \o <<":", "0", "0", "-">> \o TwoDigits(eh) \o <<":", "0", "0">>

\* an hours argument: the text, and the hours it was written from (-1: none)
HoursFromTo(sh, eh) == [hours_str |-> Some(FormatHours(sh, eh)), sh |-> sh, eh |-> eh]
HoursText(text) == [hours_str |-> text, sh |-> -1, eh |-> -1]

s_late == <<"l", "a", "t", "e">>
s_8am_10pm == <<"8", "a", "m", "-", "1", "0", "p", "m">>
s_no_dash == <<"0", "8", ":", "0", "0">>
s_three_parts == <<"0", "8", ":", "0", "0", "-", "1", "2", ":", "0", "0", "-", "1", "8", ":", "0", "0">>
s_dash == <<"-">>
s_no_start == <<":", "0", "0", "-", "2", "2", ":", "0", "0">>
s_bakery == <<"b", "a", "k", "e", "r", "y">>

\* texts the parse of lines 439-440 raises on
UnparseableHours == {s_late, s_8am_10pm, s_no_dash, s_three_parts, s_dash, s_no_start}

RiskRun(b, bl, st, h, d, c) ==
    [fn |-> "risk", business_type |-> b, budget_lakh |-> bl, seating |-> st,
     hours_str |-> h.hours_str, sh |-> h.sh, eh |-> h.eh, demand |-> d,
     competition |-> c, called |-> FALSE, open_h |-> None, risk |-> 0]

\* every category against budgets, seatings, demands and competitions around
\* the thresholds, with a few opening hours
BroadRiskRuns ==
    { RiskRun(b, bl, st, h, d, c) :
        b \in BUSINESS_KEYS \cup {s_bakery},
        bl \in {1, 79, 80, 250, 251, 299, 300, 1200, 1201},
        st \in {0, 14, 15, 60, 61, 200, 201},
        h \in {HoursFromTo(8, 22), HoursFromTo(6, 23), HoursFromTo(9, 17),
               HoursText(Some(s_late)), HoursText(None)},
        d \in {0, 40, 41, 100},
        c \in {0, 69, 70, 100} }

\* every pair of full hours, the unparseable texts, no text and the empty text
HoursRiskRuns ==
    { RiskRun(s_cafe, bl, 30, h, d, c) :
        bl \in {50, 100},
        h \in { HoursFromTo(sh, eh) : sh \in 0..23, eh \in 0..23 }
              \cup { HoursText(Some(t)) : t \in UnparseableHours }
              \cup { HoursText(None), HoursText(Some(<<>>)) },
        d \in {40, 41},
        c \in {69, 70} }

\* lines 407-463: one call; open_h is the local of line 441, absent when the
\* parse raised
RiskCall ==
    /\ conv.fn = "risk"
    /\ ~conv.called
    /\ conv' = [conv EXCEPT
                  !.called = TRUE,
                  !.open_h = HoursSpan(conv.hours_str),
                  !.risk = calculate_risk_score(conv.business_type, conv.budget_lakh,
                                                conv.seating, conv.hours_str,
                                                conv.demand, conv.competition)]
    /\ UNCHANGED <<now, requestsOk, workers, cache, proc, fill, ncalls, raster, popMax, ml, preq, obs, areq>>

InitRisk ==
    /\ now = 0
    /\ requestsOk = TRUE
    /\ workers = 1
    /\ cache = [k \in Keys |-> NoFile]
    /\ proc = [p \in Procs |-> IdleProc]
    /\ fill = [k \in Keys |-> NoFill]
    /\ ncalls = 0
    /\ conv \in BroadRiskRuns \cup HoursRiskRuns
    /\ raster = NoRaster
    /\ popMax = EnvUnset
    /\ areq = NoRequest
    /\ ml = NoModel
    /\ preq = NoPrediction
    /\ obs = NoObserver

NextRisk == RiskCall

SpecRisk == InitRisk /\ [][NextRisk]_vars

-----------------------------------------------------------------------------
(* Properties of the POI cache *)

Done(p) == proc[p].pc = "done"
CallKey(p) == KeyOf(proc[p].args)

\* C1: with one call at a time, a call made less than 3600 s after a live
\* result was written completely to its key, and whose read of the file does
\* not fail, issues no live query and is served from the cache (one live query
\* for the two calls); a call made 3600 s or more after it issues exactly one
\* live query.  No call issues more than one, and a call that wrote issued one.
C1_CacheRoundTrip ==
    \A p \in Procs :
        /\ proc[p].issued \in {0, 1}
        /\ proc[p].wroteOk => proc[p].issued = 1
        /\ (Done(p) /\ proc[p].sinceFill >= 0 /\ ~proc[p].readBad) =>
              IF proc[p].sinceFill < 3600
              THEN proc[p].issued = 0 /\ proc[p].source = "cache"
              ELSE proc[p].issued = 1

\* a second call, 1800 s after the first one filled the cache, served from it
C1_Witness ==
    /\ ncalls = 2
    /\ Done(1)
    /\ proc[1].sinceFill = 1800
    /\ proc[1].source = "cache"
    /\ proc[1].issued = 0

\* C2: a call is served from the cache only when, at its check, the file
\* existed and was younger than 3600 s, and then it returns what the file
\* holds, a complete dump; a call that consulted the cache and found the file
\* missing, 3600 s old or older, unreadable or malformed issues a live query,
\* is not served from the cache, and raises only if the live answer's parse
\* does.
C2_BadEntryIsAbsent ==
    \A p \in Procs :
        /\ proc[p].pc = "read" => (proc[p].age >= 0 /\ proc[p].age < 3600)
        /\ (Done(p) /\ proc[p].source = "cache") =>
              /\ proc[p].age >= 0 /\ proc[p].age < 3600
              /\ ~proc[p].readBad
              /\ cache[CallKey(p)].exists
              /\ cache[CallKey(p)].content = JsonDump(proc[p].result)
        /\ (Done(p) /\ proc[p].source # "disabled"
              /\ (proc[p].age = -1 \/ proc[p].age >= 3600 \/ proc[p].readBad)) =>
              /\ proc[p].issued = 1
              /\ proc[p].source # "cache"
              /\ proc[p].outcome = "raised" => (proc[p].liveOk /\ ~proc[p].parsed)

\* a young but damaged file: the call went on to the live query and returned
\* its result
C2_Witness ==
    /\ Done(1)
    /\ proc[1].readBad
    /\ proc[1].age = 0
    /\ proc[1].source = "live"
    /\ proc[1].outcome = "returned"
    /\ proc[1].result # <<>>

\* C3: with one call at a time, a call whose live query answered and parsed
\* returns the parsed sequence, whether or not the cache write succeeded; if
\* the write succeeded, the file of its key holds exactly that sequence, also
\* when it is empty.
C3_WrittenAfterLiveFetch ==
    \A p \in Procs :
        (Done(p) /\ proc[p].parsed) =>
            /\ proc[p].outcome = "returned"
            /\ proc[p].result = proc[p].pois
            /\ proc[p].wroteOk =>
                  /\ cache[CallKey(p)].exists
                  /\ JsonValid(cache[CallKey(p)].content)
                  /\ JsonLoad(cache[CallKey(p)].content) = proc[p].result

\* a live query that found nothing, written to the cache as the empty list
C3_Witness ==
    /\ Done(1)
    /\ proc[1].parsed
    /\ proc[1].wroteOk
    /\ proc[1].result = <<>>
    /\ cache[CallKey(1)].content = <<TokOpen, TokClose>>

\* C4: a call whose live query failed (network failure, timeout, non-success
\* status, undecodable body) returned the empty sequence and did not raise.
C4_QueryFailureReturnsEmpty ==
    \A p \in Procs :
        (Done(p) /\ proc[p].source \in QueryFailures) =>
            /\ proc[p].outcome = "returned"
            /\ proc[p].result = <<>>
            /\ proc[p].issued = 1

\* a timeout and an undecodable body, each answered with the empty sequence
C4_Witness ==
    /\ Done(1)
    /\ proc[1].source \in {"timeout", "invalid_json"}
    /\ proc[1].result = <<>>

\* the results a complete cache file can hold
CompleteResults ==
    { ParsePois(r) : r \in { e \in Responses : ~ParseRaises(e) } }

\* C5: with two workers and no lock: no call raises unless the live answer's
\* parse does, a call served from the cache returns a complete result, and
\* when both calls have written their result in full to the same key, the
\* file is the complete dump of one of the two results.
C5_NoLockNeeded ==
    /\ \A p \in Procs :
          /\ proc[p].outcome = "raised" => (proc[p].liveOk /\ ~proc[p].parsed)
          /\ (Done(p) /\ proc[p].source = "cache") =>
                proc[p].result \in CompleteResults
    /\ (/\ \A p \in Procs : Done(p) /\ proc[p].parsed /\ proc[p].wroteOk
        /\ CallKey(1) = CallKey(2)) =>
          \E p \in Procs : cache[CallKey(1)].content = JsonDump(proc[p].result)

-----------------------------------------------------------------------------
(* Properties of the score converters *)

\* C6: for a radius above 0, the competition score does not fall when one
\* more POI is counted, from the empty sequence on, and the empty sequence
\* scores 20.
C6_CompetitionMonotone ==
    (conv.fn = "competition" /\ conv.radius_m > 0) =>
        /\ conv.prev <= conv.cur
        /\ conv.pois = <<>> => conv.cur = 20

C8_DensityMonotoneSaturates ==
    (/\ conv.fn = "density"
     /\ \/ conv.max_val.some /\ conv.max_val.v > 0
        \/ ~conv.max_val.some /\ conv.env.set /\ conv.env.num /\ conv.env.v > 0) =>
        LET m == IF conv.max_val.some THEN conv.max_val.v ELSE conv.env.v IN
        /\ conv.prev <= conv.cur
        /\ conv.cur \in 0..100
        /\ conv.density >= 100 * m => conv.cur = 100

\* a density that has just reached the scale 5000: the score rose to 100
C8_Witness ==
    /\ conv.fn = "density"
    /\ conv.max_val = Some(5000)
    /\ conv.density >= 500000
    /\ conv.prev < 100
    /\ conv.cur = 100

-----------------------------------------------------------------------------
(* Properties of /analyze *)

AnalyzeResult == areq.pc = "responded"

\* the request asks for no density, lacks a coordinate, or the sampler fails
\* softly: no geo libraries, no raster path or file, a failing raster access,
\* no valid cell
NoDensityAvailable ==
    \/ ~areq.req.use_population_density
    \/ ~areq.req.lat.some
    \/ ~areq.req.lon.some
    \/ ~raster.geoOk
    \/ raster.path # "file"
    \/ raster.read \in {"raises", "nodata"}

\* C9: the demand score of an analysis is exactly 60 whenever no density value
\* is available: the density signal is not requested, latitude or longitude is
\* missing, or the sampler returns absent for one of its soft-failure reasons.
C9_NeutralDemandWithoutDensity ==
    AnalyzeResult /\ NoDensityAvailable =>
        /\ areq.response.scores.demand = 60
        /\ areq.response.debug.mean_density = None

\* a result for a request that asked for the density at valid coordinates,
\* where the raster has no valid cell around the place
C9_Witness ==
    /\ AnalyzeResult
    /\ areq.sampled
    /\ raster.geoOk /\ raster.path = "file" /\ raster.read = "nodata"
    /\ areq.response.scores.demand = 60

\* C10: in every result analyze produces, on every path including the fallback
\* paths, the demand, competition and risk scores are integers in [0,100].
C10_ScoresInRange ==
    AnalyzeResult =>
        /\ areq.response.scores.demand \in 0..100
        /\ areq.response.scores.competition \in 0..100
        /\ areq.response.scores.risk \in 0..100

\* a result where both clamps act: a negative density gives demand 0, the POIs
\* found saturate the competition score, and the adjustments of the risk sum
\* to more than 100
C10_Witness ==
    /\ AnalyzeResult
    /\ raster = Sampled(-500)
    /\ areq.sampled
    /\ areq.response.debug.poi_count > 0
    /\ areq.response.scores = [demand |-> 0, risk |-> 100, competition |-> 100]

-----------------------------------------------------------------------------
(* Properties of the risk score *)

RiskCalled == conv.fn = "risk" /\ conv.called

\* the adjustments as the specification states them, for the call in conv
StatedProfile == get_business_type_info(conv.business_type)

StatedBudget ==
    IF conv.budget_lakh < 10 * StatedProfile.typ_budget[1] THEN 15
    ELSE IF conv.budget_lakh > 10 * StatedProfile.typ_budget[2] THEN -10
    ELSE 0

StatedSeating ==
    IF StatedProfile.typ_seating = <<0, 0>> THEN 0
    ELSE IF conv.seating < StatedProfile.typ_seating[1] THEN 10
    ELSE IF conv.seating > StatedProfile.typ_seating[2] THEN 5
    ELSE 0

StatedMarket ==
    (IF conv.demand <= 40 THEN 10 ELSE 0) + (IF conv.competition >= 70 THEN 12 ELSE 0)

StatedHours(span) == IF span >= 16 THEN 13 ELSE IF span >= 12 THEN 8 ELSE 0

Clamped(x) == IF x < 0 THEN 0 ELSE IF x > 100 THEN 100 ELSE x

\* C11: calculate_risk_score returns 50 plus the sum of the adjustments,
\* limited to 0..100 once at the end: +15 / -10 for a budget below / above the
\* category's range, +10 / +5 for a seating below / above the range of a
\* category that uses seating (none for a zero-zero category), +13 for a span
\* of 16 hours or more, +8 for 12 to 15, +10 for a demand of 40 or less, +12
\* for a competition of 70 or more.
C11_RiskIsClampedSum ==
    RiskCalled =>
        conv.risk = Clamped(50 + StatedBudget + StatedSeating + StatedMarket
                              + (IF conv.open_h.some THEN StatedHours(conv.open_h.v)
                                 ELSE 0))

\* a cafe with every penalty: 50 + 15 + 10 + 13 + 10 + 12 = 110, returned as 100
C11_Witness ==
    /\ RiskCalled
    /\ conv.business_type = s_cafe
    /\ conv.budget_lakh = 79 /\ conv.seating = 14
    /\ conv.sh = 6 /\ conv.eh = 23
    /\ conv.demand = 40 /\ conv.competition = 70
    /\ conv.risk = 100

\* C12: for hours written "HH:00-HH:00" the span is (end - start) mod 24:
\* 08:00-22:00 gives 14 and adds 8, 22:00-08:00 gives 10 and adds nothing;
\* for every pair of hours 13 is added exactly when the span is 16 or more
\* and 8 exactly when it is 12 to 15.
C12_HoursSpanModulo ==
    (RiskCalled /\ conv.sh >= 0) =>
        LET span == (conv.eh - conv.sh) % 24
            others == 50 + StatedBudget + StatedSeating + StatedMarket
        IN /\ conv.open_h = Some(span)
           /\ conv.risk = Clamped(others + StatedHours(span))
           /\ (conv.sh = 8 /\ conv.eh = 22) =>
                 (span = 14 /\ conv.risk = Clamped(others + 8))
           /\ (conv.sh = 22 /\ conv.eh = 8) =>
                 (span = 10 /\ conv.risk = Clamped(others))

\* the overnight hours 22:00-08:00: span 10, nothing added to the base 50
C12_Witness ==
    /\ RiskCalled
    /\ conv.sh = 22 /\ conv.eh = 8
    /\ conv.budget_lakh = 100 /\ conv.demand = 41 /\ conv.competition = 69
    /\ conv.open_h = Some(10)
    /\ conv.risk = 50

\* C13: for an hours text that cannot be parsed no hours adjustment is made,
\* neither 8 nor 13, and the call returns the risk of the other adjustments.
C13_UnparsedHoursAddNothing ==
    (RiskCalled /\ conv.hours_str.some /\ conv.hours_str.v \in UnparseableHours) =>
        /\ ~conv.open_h.some
        /\ conv.risk = Clamped(50 + StatedBudget + StatedSeating + StatedMarket)

\* three parts instead of two: the risk is 50 + 15 (budget) + 10 (demand)
C13_Witness ==
    /\ RiskCalled
    /\ conv.hours_str = Some(s_three_parts)
    /\ conv.budget_lakh = 50 /\ conv.demand = 40 /\ conv.competition = 69
    /\ conv.risk = 75


-----------------------------------------------------------------------------
(* Properties of POST /analyze: refusals, failures, fallbacks *)

\* a coordinate of the request lies outside its range
InvalidCoordinates(r) ==
    \/ r.lat.some /\ (r.lat.v < -90000000 \/ r.lat.v > 90000000)
    \/ r.lon.some /\ (r.lon.v < -180000000 \/ r.lon.v > 180000000)

\* a step in which a request arrives
RequestArrives == ncalls' = ncalls + 1

\* C14: a request with a latitude outside [-90, 90] or a longitude outside
\* [-180, 180] is refused with a validation error (HTTP 422 of the request
\* model), and in the step that refuses it the raster is not sampled, no POI
\* fetch is begun and no cache file is read or written; nothing is fetched or
\* written for it afterwards either.
C14_InvalidCoordinatesRefusedFirst ==
    [][ /\ (RequestArrives /\ InvalidCoordinates(areq'.req)) =>
              /\ areq'.pc = "rejected"
              /\ areq'.status = 422
              /\ ~areq'.sampled
              /\ UNCHANGED <<cache, fill, proc>>
        /\ (areq.pc = "rejected" /\ ~RequestArrives) =>
              UNCHANGED <<cache, fill, proc, areq>> ]_vars

\* a latitude of 95 degrees was refused while a cache file for the place exists
C14_Witness ==
    /\ areq.pc = "rejected"
    /\ areq.req.lat = Some(95000000)
    /\ areq.req.consider_competition /\ areq.req.use_population_density
    /\ \A k \in Keys : cache[k].exists
    /\ raster = Sampled(1000)
    /\ \A p \in Procs : proc[p] = IdleProc


\* the parts of a complete result (lines 656-673)
ResultParts == {"summary", "pros", "cons", "scores", "debug", "pois"}

\* the result of the request has every part
CompleteResult ==
    /\ DOMAIN areq.response = ResultParts
    /\ DOMAIN areq.response.scores = {"demand", "risk", "competition"}
    /\ areq.response.pros # <<>>

\* C15: a request whose coordinates are not out of range is never refused and
\* never ends in a failure (HTTP 500); once answered, its result has summary,
\* pros, cons, the three scores, the diagnostics and the POI list.
C15_AnalyzeNeverFails ==
    (areq.pc # "idle" /\ ~InvalidCoordinates(areq.req)) =>
        /\ areq.pc \in {"fetching", "responded"}
        /\ areq.pc = "responded" => CompleteResult


\* the risk score of the answered request, computed from the scores of its result
RiskOfResult ==
    calculate_risk_score(areq.req.business_type, areq.req.budget_lakh,
                         areq.req.seating_capacity, areq.req.open_hours,
                         areq.response.scores.demand, areq.response.scores.competition)

\* the insights of the answered request, computed from the scores of its result
InsightsOfResult ==
    generate_insights(areq.req.business_type, areq.response.scores.demand,
                      areq.response.scores.risk, areq.response.scores.competition,
                      areq.req.city, areq.req.radius_m)

\* C16: when the POI fetch of a request raised, the request is still answered:
\* the competition score is 55 (not the 20 of an empty result), no POI is
\* reported, and risk and insights are computed with that score.
C16_FallbackCompetitionOnException ==
    (areq.pc = "responded" /\ areq.fetch.outcome = "raised") =>
        /\ areq.response.scores.competition = FallbackCompetition
        /\ areq.response.scores.competition # NoPoiScore
        /\ areq.response.debug.poi_count = 0
        /\ areq.response.pois = <<>>
        /\ areq.response.scores.risk = RiskOfResult
        /\ areq.response.pros = InsightsOfResult.pros
        /\ areq.response.cons = InsightsOfResult.cons
        /\ CompleteResult

\* a malformed element of a live answer made the fetch raise, and the request
\* was answered
C16_Witness ==
    /\ areq.pc = "responded"
    /\ areq.status = 200
    /\ areq.req.consider_competition /\ HasCoordinates(areq.req)
    /\ areq.fetch = [outcome |-> "raised", source |-> "live"]
    /\ areq.response.scores.competition = 55


-----------------------------------------------------------------------------
(* The end-to-end scenario *)

\* the scenario's case: a cafe request with radius 500 and both signals was
\* answered, the fetch returned no POI, and no raster is configured
ScenarioCase ==
    /\ areq.pc = "responded"
    /\ areq.req.business_type = s_cafe /\ areq.req.radius_m = 500
    /\ areq.req.use_population_density /\ areq.req.consider_competition
    /\ HasCoordinates(areq.req) /\ ~InvalidCoordinates(areq.req)
    /\ areq.fetch.outcome = "returned" /\ areq.response.debug.poi_count = 0
    /\ raster.path = "unset"

\* the adjustments of a cafe (budget 8 to 25 lakh, 15 to 60 seats); the
\* default hours 08:00-22:00 span 14 hours, 06:00-23:00 spans 17
ScenarioAdjustments ==
    (IF areq.req.budget_lakh < 80 THEN 15
     ELSE IF areq.req.budget_lakh > 250 THEN -10 ELSE 0)
    + (IF areq.req.seating_capacity < 15 THEN 10
       ELSE IF areq.req.seating_capacity > 60 THEN 5 ELSE 0)
    + (IF areq.req.open_hours = Some(s_long_hours) THEN 13 ELSE 8)

\* C17: in the scenario the demand score is 60, the competition score 20, the
\* risk is 50 plus the budget, seating and hours adjustments limited to 0..100
\* (no demand and no competition penalty), pros holds the sentence "Cafe format
\* fits well with student/office crowd in this area." and ends with the
\* sentence naming the radius of 500 m.
C17_EndToEndScenario ==
    ScenarioCase =>
        /\ areq.response.scores.demand = 60
        /\ areq.response.scores.competition = 20
        /\ areq.response.scores.risk = Clamped(50 + ScenarioAdjustments)
        /\ \E i \in 1..Len(areq.response.pros) :
              areq.response.pros[i]
                = Sentence("Cafe format fits well with student/office crowd in this area.")
        /\ areq.response.pros[Len(areq.response.pros)]
             = [text |-> "Analysis covers", radius_m |-> 500, city |-> areq.req.city]

\* a budget of 5 lakh and 30 seats at the default hours: 50 + 15 + 0 + 8 = 73,
\* after a live answer without elements
C17_Witness ==
    /\ ScenarioCase
    /\ areq.req.budget_lakh = 50 /\ areq.req.seating_capacity = 30
    /\ areq.req.open_hours = None
    /\ areq.fetch.source = "live"
    /\ areq.response.scores = [demand |-> 60, risk |-> 73, competition |-> 20]
    /\ Len(areq.response.pros) >= 2


-----------------------------------------------------------------------------
(* Category lookup and generate_insights called on their own *)

UpperOf == [c \in {LowerLetters[i] : i \in 1..26} |->
               UpperLetters[CHOOSE i \in 1..26 : LowerLetters[i] = c]]

UpperChar(c) == IF c \in DOMAIN UpperOf THEN UpperOf[c] ELSE c

\* the ways of writing a category key: letter case
StrUpper(t) == [i \in 1..Len(t) |-> UpperChar(t[i])]

TitleCase(t) ==
    [i \in 1..Len(t) |->
        IF i = 1 \/ t[IF i = 1 THEN 1 ELSE i - 1] \in {"_", " ", "-"}
        THEN UpperChar(t[i]) ELSE t[i]]

CaseForms(t) == {t, StrUpper(t), TitleCase(t)}

\* a space or a hyphen in place of the underscore
SeparatorForms(t) == {t, StrReplace(t, "_", " "), StrReplace(t, "_", "-")}

\* whitespace around the name
PaddedForms(t) == {t, <<" ">> \o t \o <<" ">>, <<"\t">> \o t \o <<"\n">>}

NameForms(k) ==
    UNION { UNION { PaddedForms(u) : u \in SeparatorForms(c) } : c \in CaseForms(k) }

s_cafeteria == <<"c", "a", "f", "e", "t", "e", "r", "i", "a">>
s_internet_cafe == <<"I", "n", "t", "e", "r", "n", "e", "t", " ", "C", "a", "f", "e">>
s_gymnastics == <<"g", "y", "m", "n", "a", "s", "t", "i", "c", "s">>
s_hostel == <<"h", "o", "s", "t", "e", "l">>
s_hostel_2_mess == <<"h", "o", "s", "t", "e", "l", " ", " ", "m", "e", "s", "s">>
s_hostel_tab_mess == <<"h", "o", "s", "t", "e", "l", "\t", "m", "e", "s", "s">>
s_salon == <<"s", "a", "l", "o", "n">>
s_blank == <<" ", " ">>

\* names whose normalized key is not in the table, and the empty name
UnknownNames ==
    { <<>>, s_blank, s_bakery, s_salon, s_cafeteria, s_internet_cafe, s_gymnastics,
      s_hostel, s_hostel_2_mess, s_hostel_tab_mess }

\* a lookup of name, written as a form of the key `of` (None: of no key)
LookupRun(name, of) ==
    [fn |-> "lookup", business_type |-> name, of |-> of, called |-> FALSE,
     key |-> <<>>, profile |-> None]

LookupRuns ==
    UNION { { LookupRun(n, Some(k)) : n \in NameForms(k) } : k \in BUSINESS_KEYS }
    \cup { LookupRun(n, None) : n \in UnknownNames }

\* get_business_type_info(name)
LookupCall ==
    /\ conv.fn = "lookup"
    /\ ~conv.called
    /\ conv' = [conv EXCEPT !.called = TRUE,
                            !.key = normalize_business_type(conv.business_type),
                            !.profile = get_business_type_info(conv.business_type)]
    /\ UNCHANGED <<now, requestsOk, workers, cache, proc, fill, ncalls, raster, popMax, ml, preq, obs, areq>>

s_Hostel_Mess == <<"H", "o", "s", "t", "e", "l", " ", "M", "e", "s", "s">>

InsightNames ==
    BUSINESS_KEYS \cup {s_Gym, s_Hostel_Mess, <<>>, s_bakery, s_cafeteria,
                        s_internet_cafe, s_gymnastics}

InsightsRun(name, demand, risk, competition, city, radius_m) ==
    [fn |-> "insights", business_type |-> name, demand |-> demand, risk |-> risk,
     competition |-> competition, city |-> city, radius_m |-> radius_m,
     called |-> FALSE, key |-> <<>>, pros |-> <<>>, cons |-> <<>>]

\* scores on both sides of every threshold of lines 477-544
InsightsRuns ==
    { InsightsRun(n, d, r, c, city, radius) :
        n \in InsightNames, d \in {40, 45, 50, 55, 60, 65, 70},
        r \in {40, 60, 61}, c \in {30, 35, 40, 50, 60, 61},
        city \in {None, Some(<<>>), Some(s_Vellore)}, radius \in {100, 500} }

\* generate_insights(business_type, demand, risk, competition, city, radius_m)
InsightsCall ==
    /\ conv.fn = "insights"
    /\ ~conv.called
    /\ \E ins \in {generate_insights(conv.business_type, conv.demand, conv.risk,
                                     conv.competition, conv.city, conv.radius_m)} :
          conv' = [conv EXCEPT !.called = TRUE,
                               !.key = normalize_business_type(conv.business_type),
                               !.pros = ins.pros, !.cons = ins.cons]
    /\ UNCHANGED <<now, requestsOk, workers, cache, proc, fill, ncalls, raster, popMax, ml, preq, obs, areq>>

InitCategory ==
    /\ now = 0
    /\ requestsOk = TRUE
    /\ workers = 1
    /\ cache = [k \in Keys |-> NoFile]
    /\ proc = [p \in Procs |-> IdleProc]
    /\ fill = [k \in Keys |-> NoFill]
    /\ ncalls = 0
    /\ conv \in LookupRuns \cup InsightsRuns
    /\ raster = NoRaster
    /\ popMax = EnvUnset
    /\ areq = NoRequest
    /\ ml = NoModel
    /\ preq = NoPrediction
    /\ obs = NoObserver

NextCategory ==
    \/ LookupCall
    \/ InsightsCall

SpecCategory == InitCategory /\ [][NextCategory]_vars

-----------------------------------------------------------------------------
(* Properties of the category lookup and of the insights *)

LookupCalled == conv.fn = "lookup" /\ conv.called

InsightsCalled == conv.fn = "insights" /\ conv.called

\* C18: a name that differs from a category key only in letter case, in
\* whitespace around it, or in a space or hyphen written for the underscore,
\* gets that key's profile; a name that is a form of no key, the empty name
\* included, gets the profile of cafe.
C18_LookupIgnoresCaseAndFormat ==
    LookupCalled =>
        conv.profile = (IF conv.of.some THEN BUSINESS_TYPES(conv.of.v)
                        ELSE BUSINESS_TYPES(s_cafe))

\* "HOSTEL-MESS" between a tab and a newline got the profile of hostel_mess
C18_Witness ==
    /\ LookupCalled
    /\ conv.business_type = <<"\t">> \o StrReplace(StrUpper(s_hostel_mess), "_", "-") \o <<"\n">>
    /\ conv.of = Some(s_hostel_mess)
    /\ conv.profile.typ_seating = <<40, 200>>
    /\ conv.profile # BUSINESS_TYPES(s_cafe)

Range(f) == { f[i] : i \in DOMAIN f }

\* every sentence a category branch of lines 501-544 can add
CategorySentences ==
    UNION { Range(CategoryPros(b, d, c)) \cup Range(CategoryCons(b, d, c)) :
            b \in {"cafe", "gym", "stationery", "hostel_mess", "restaurant", "retail"},
            d \in {0, 100}, c \in {0, 100} }

\* C19: for a name whose normalized key is not a category key, pros and cons
\* hold no category-specific sentence: pros is the general sentences followed
\* by the location sentence, cons is the general sentences.
C19_NoCategorySentencesForUnknown ==
    (InsightsCalled /\ conv.key \notin BUSINESS_KEYS) =>
        /\ \A i \in 1..Len(conv.pros) : conv.pros[i] \notin CategorySentences
        /\ \A i \in 1..Len(conv.cons) : conv.cons[i] \notin CategorySentences
        /\ conv.pros = GeneralPros(conv.demand, conv.risk, conv.competition)
                         \o <<conv.pros[Len(conv.pros)]>>
        /\ conv.cons = GeneralCons(conv.demand, conv.risk, conv.competition)

\* the sentences of line 547-550 in a list
ContextSentences(list) == { i \in 1..Len(list) : list[i].text = "Analysis covers" }

\* C20: pros is never empty; its last element is the location sentence, which
\* names the radius, and names the city exactly when a city that is not empty
\* was given; no other element of pros or cons is a location sentence.
C20_OneTrailingContextSentence ==
    InsightsCalled =>
        /\ conv.pros # <<>>
        /\ conv.pros[Len(conv.pros)]
             = [text |-> "Analysis covers", radius_m |-> conv.radius_m,
                city |-> IF conv.city.some /\ conv.city.v # <<>> THEN conv.city
                         ELSE None]
        /\ ContextSentences(conv.pros) = {Len(conv.pros)}
        /\ ContextSentences(conv.cons) = {}

\* weak demand, heavy competition and high risk leave the location sentence
\* alone in pros; the city passed is the empty string and is not named
C20_Witness ==
    /\ InsightsCalled
    /\ conv.business_type = s_bakery
    /\ conv.city = Some(<<>>)
    /\ conv.pros = <<[text |-> "Analysis covers", radius_m |-> 500, city |-> None]>>
    /\ Len(conv.cons) = 3


-----------------------------------------------------------------------------
(* POST /analyze with an answer longer than the cap of the POI list *)

\* a live answer of one more element than the cap; the latitudes differ
BigAnswer ==
    [i \in 1..(PoiCap + 1) |->
        [lat |-> Some(12971000 + i), lon |-> Some(77594600), center |-> NoCenter,
         name |-> None, type |-> Some("node")]]

PoiListResponses == { <<>>, <<eNode, eWay>>, <<eNoType>>, BigAnswer }

\* cafe requests at the valid place, each signal asked for or not
PoiListRequests ==
    { r \in Requests : r.business_type = s_cafe /\ r.lat = Some(12971601)
                        /\ r.lon = Some(77594602) }

PoiListRasters ==
    { NoRaster, RasterEnv(TRUE, "file", "nodata", 0), Sampled(1000), Sampled(-500) }

InitPoiList ==
    /\ now = 0
    /\ requestsOk \in BOOLEAN
    /\ workers = 1
    /\ cache \in { [k \in Keys |-> f] :
                   f \in InitFiles \cup {FileOf(0, JsonDump(ParsePois(BigAnswer)))} }
    /\ proc = [p \in Procs |-> IdleProc]
    /\ fill = [k \in Keys |-> NoFill]
    /\ ncalls = 0
    /\ conv = NoConv
    /\ raster \in PoiListRasters
    /\ popMax = EnvUnset
    /\ areq = NoRequest
    /\ ml = NoModel
    /\ preq = NoPrediction
    /\ obs = NoObserver

NextPoiList ==
    \/ \E r \in PoiListRequests : AnalyzeStart(r)
    \/ AnalyzeFinish
    \/ \E p \in Procs : FetchCheckCache(p)
    \/ \E p \in Procs, readable \in BOOLEAN : FetchReadCache(p, readable)
    \/ \E p \in Procs, why \in QueryFailures : FetchQueryFails(p, why)
    \/ \E p \in Procs, elements \in PoiListResponses : FetchQueryAnswers(p, elements)
    \/ \E p \in Procs, ok \in BOOLEAN : FetchOpenCache(p, ok)
    \/ \E p \in Procs : \E n \in 0..Len(CacheText(proc[p].pois)) : FetchWriteCache(p, n)
    \/ AdvanceTime

SpecPoiList == InitPoiList /\ [][NextPoiList]_vars

\* the density the raster gives at the request's place, when it gives one
RawDensity ==
    IF raster.geoOk /\ raster.path = "file" /\ raster.read = "value"
    THEN Some(raster.mean) ELSE None

\* C21: in every result the POI list is the first min(50, N) of the N POIs the
\* fetch gave, in their order; poi_count is N; the reported density is the raw
\* sampled value, or absent when none was sampled; raster_used is true exactly
\* when a density was obtained.
C21_PoiListCappedCountNot ==
    areq.pc = "responded" =>
        LET N == Len(areq.fetched)
            shown == IF N < 50 THEN N ELSE 50
        IN /\ areq.response.pois = [i \in 1..shown |-> areq.fetched[i]]
           /\ areq.response.debug.poi_count = N
           /\ areq.response.debug.mean_density
                = (IF areq.sampled THEN RawDensity ELSE None)
           /\ areq.response.debug.raster_used
                = (areq.sampled /\ RawDensity # None)

\* a live answer of 51 POIs: 50 are returned, 51 counted, the density of 10.00
\* is reported
C21_Witness ==
    /\ areq.pc = "responded"
    /\ areq.fetch = [outcome |-> "returned", source |-> "live"]
    /\ Len(areq.fetched) = 51
    /\ Len(areq.response.pois) = 50
    /\ areq.response.pois[50].lat = 12971050
    /\ areq.response.debug.poi_count = 51
    /\ areq.response.debug.mean_density = Some(1000)
    /\ areq.response.debug.raster_used


-----------------------------------------------------------------------------
(* POST /analyze asked more than once, the answers recorded *)

RepeatRequests ==
    { r \in Requests : /\ r.business_type = s_cafe /\ r.lat = Some(12971601)
                       /\ r.lon = Some(77594602) /\ r.use_population_density }

InitRepeat ==
    /\ now = 0
    /\ requestsOk \in BOOLEAN
    /\ workers = 1
    /\ cache \in { [k \in Keys |-> f] : f \in InitFiles }
    /\ proc = [p \in Procs |-> IdleProc]
    /\ fill = [k \in Keys |-> NoFill]
    /\ ncalls = 0
    /\ conv = NoConv
    /\ raster \in {NoRaster, Sampled(1000)}
    /\ popMax = EnvUnset
    /\ areq = NoRequest
    /\ ml = NoModel
    /\ preq = NoPrediction
    /\ obs = [on |-> TRUE, limit |-> MaxRuns, runs |-> <<>>]

NextRepeat ==
    \/ \E r \in RepeatRequests : AnalyzeStart(r)
    \/ AnalyzeFinish
    \/ \E p \in Procs : FetchCheckCache(p)
    \/ \E p \in Procs, readable \in BOOLEAN : FetchReadCache(p, readable)
    \/ \E p \in Procs, why \in QueryFailures : FetchQueryFails(p, why)
    \/ \E p \in Procs, elements \in Responses : FetchQueryAnswers(p, elements)
    \/ \E p \in Procs, ok \in BOOLEAN : FetchOpenCache(p, ok)
    \/ \E p \in Procs : \E n \in 0..Len(CacheText(proc[p].pois)) : FetchWriteCache(p, n)
    \/ AdvanceTime

SpecRepeat == InitRepeat /\ [][NextRepeat]_vars


\* the recorded answer came after a live query that failed
AfterQueryFailure(run) == run.fetch.source \in QueryFailures

\* the recorded answer came after a live query that succeeded and found nothing
AfterEmptyAnswer(run) ==
    run.fetch = [outcome |-> "returned", source |-> "live"] /\ run.fetched = <<>>

\* C22: the diagnostics of a result tell which fallback fired: a result given
\* after a failed live query differs in its diagnostics from a result given
\* after a live query that succeeded and found no POI.
C22_FallbackVisibleInDiagnostics ==
    \A i, j \in 1..Len(obs.runs) :
        (AfterQueryFailure(obs.runs[i]) /\ AfterEmptyAnswer(obs.runs[j])) =>
            obs.runs[i].response.debug # obs.runs[j].response.debug


-----------------------------------------------------------------------------
(* The learned model: load_ml_model (lines 48-82) and POST /predict
   (lines 570-576, 684-769).  A confidence counts hundredths. *)

\* what the start of the process finds: whether joblib and .features import,
\* and the model file: absent, unreadable, a classifier with predict_proba, an
\* estimator without it
LoadEnvs ==
    [imports : BOOLEAN, file : {"absent", "unreadable", "classifier", "no_proba"}]

\* lines 48-82: MODEL and TO_DF after load_ml_model()
load_ml_model(env) ==
    IF ~env.imports THEN NoModel
    ELSE IF env.file = "absent" THEN NoModel
    ELSE IF env.file = "unreadable" THEN NoModel
    ELSE [MODEL |-> env.file, TO_DF |-> "features"]

\* lines 570-576: the field constraints of PredictionRequest
PredictionAccepted(r) ==
    /\ 1 <= r.budget_lakh /\ r.budget_lakh <= 10000
    /\ 0 <= r.seating_capacity /\ r.seating_capacity <= 1000
    /\ 100 <= r.radius_m /\ r.radius_m <= 5000
    /\ r.demand_score.some => (0 <= r.demand_score.v /\ r.demand_score.v <= 100)

\* lines 696-708, 765-769: the fixed answer
FallbackPrediction(r, errors, row) ==
    [pc |-> "answered", req |-> r, status |-> 200, prediction |-> "Promising",
     confidence |-> 78, errors |-> errors, row |-> row]

\* lines 711-719: the feature row
FeatureRow(r) ==
    [project_type |-> r.business_type, city |-> r.city, budget_lakh |-> r.budget_lakh,
     seating_capacity |-> r.seating_capacity, radius_m |-> r.radius_m,
     demand_score |-> IF r.demand_score.some THEN r.demand_score.v ELSE NeutralDemand]

\* np.argmax: the first index of the largest probability, counted from 0
ArgMax(proba) ==
    (CHOOSE k \in 1..Len(proba) :
        /\ \A h \in 1..Len(proba) : proba[h] <= proba[k]
        /\ \A h \in 1..(k - 1) : proba[h] < proba[k]) - 1

\* lines 729-746: the answer from the probabilities
ProbaPrediction(r, proba, row) ==
    [pc |-> "answered", req |-> r, status |-> 200,
     prediction |-> IF Len(proba) = 2
                    THEN (IF ArgMax(proba) = 1 THEN "Promising" ELSE "Not viable")
                    ELSE "Class",
     class |-> ArgMax(proba), confidence |-> proba[ArgMax(proba) + 1],
     errors |-> {}, row |-> row]

\* lines 748-759: predict_proba raised AttributeError; the class MODEL.predict
\* gives is returned as text with the confidence 0.66
ClassPrediction(r, klass, row) ==
    [pc |-> "answered", req |-> r, status |-> 200, prediction |-> klass,
     confidence |-> 66, errors |-> {"predict_proba"}, row |-> row]

\* what MODEL.predict_proba(X)[0] can end in: an exception, an AttributeError,
\* or the probabilities of one, two or three classes
ProbaOutcomes ==
    { "raises", "attribute_error", <<100>>, <<30, 70>>, <<70, 30>>, <<50, 50>>,
      <<20, 30, 50>> }

\* what MODEL.predict(X)[0] can end in: an exception or a class
ClassOutcomes == {"raises", "0", "1"}

\* lines 684-769: POST /predict.  frameOk: TO_DF(row) returns; proba, klass:
\* what the model's two methods do when called
Predict(r, frameOk, proba, klass) ==
    /\ preq.pc = "idle"
    /\ ml.MODEL = "no_proba" => proba = "attribute_error"
    /\ LET row == Some(FeatureRow(r)) IN
       preq' =
         IF ~PredictionAccepted(r) THEN [pc |-> "rejected", req |-> r, status |-> 422]
         ELSE IF ml.TO_DF = "none" THEN FallbackPrediction(r, {}, None)
         ELSE IF ml.MODEL = "none" THEN FallbackPrediction(r, {}, None)
         ELSE IF ~frameOk THEN FallbackPrediction(r, {"to_df"}, row)
         ELSE IF proba = "raises" THEN FallbackPrediction(r, {"predict_proba"}, row)
         ELSE IF proba = "attribute_error"
         THEN (IF klass = "raises"
               THEN FallbackPrediction(r, {"predict_proba", "predict"}, row)
               ELSE ClassPrediction(r, klass, row))
         ELSE ProbaPrediction(r, proba, row)
    /\ UNCHANGED <<now, requestsOk, workers, cache, proc, fill, ncalls, conv, raster,
                   popMax, areq, ml, obs>>

PredictRequests ==
    { [business_type |-> s_cafe, city |-> s_Vellore, budget_lakh |-> bl,
       seating_capacity |-> 30, radius_m |-> 500, demand_score |-> d] :
      bl \in {0, 100}, d \in {None, Some(75)} }

\* requests that need no POI fetch
PlainRequests == { r \in Requests : ~r.consider_competition }

InitPredict ==
    /\ now = 0
    /\ requestsOk = TRUE
    /\ workers = 1
    /\ cache = [k \in Keys |-> NoFile]
    /\ proc = [p \in Procs |-> IdleProc]
    /\ fill = [k \in Keys |-> NoFill]
    /\ ncalls = 0
    /\ conv = NoConv
    /\ raster \in {NoRaster, Sampled(1000)}
    /\ popMax = EnvUnset
    /\ areq = NoRequest
    /\ ml \in { load_ml_model(env) : env \in LoadEnvs }
    /\ preq = NoPrediction
    /\ obs = NoObserver

NextPredict ==
    \/ \E r \in PredictRequests, frameOk \in BOOLEAN, proba \in ProbaOutcomes,
          klass \in ClassOutcomes : Predict(r, frameOk, proba, klass)
    \/ \E r \in PlainRequests : AnalyzeStart(r)

SpecPredict == InitPredict /\ [][NextPredict]_vars

\* C23: a valid /predict request is always answered; when the model or the
\* encoder was not loaded, or a step of the prediction raised, the answer is
\* "Promising" with confidence 0.78; an absent demand score enters the feature
\* row as 60; and /analyze answers whatever the model load gave.
C23_PredictFallsBack ==
    /\ (preq.pc # "idle" /\ PredictionAccepted(preq.req)) =>
          /\ preq.pc = "answered" /\ preq.status = 200
          /\ (ml.MODEL = "none" \/ ml.TO_DF = "none" \/ preq.errors # {}) =>
                (preq.prediction = "Promising" /\ preq.confidence = 78)
          /\ (preq.row.some /\ ~preq.req.demand_score.some) =>
                preq.row.v.demand_score = 60
    /\ (areq.pc # "idle" /\ ~InvalidCoordinates(areq.req)) => areq.pc = "responded"


-----------------------------------------------------------------------------
(* Repeated requests *)

\* two recorded answers were given to the same request under the same
\* conditions: the POI fetch ended the same way and gave the same list (the
\* raster and POP_MAX_DENSITY do not change while the process runs)
SameConditions(a, b) ==
    /\ a.req = b.req
    /\ a.fetch = b.fetch
    /\ a.fetched = b.fetched

-----------------------------------------------------------------------------
(* What a request may change *)

\* the cache key of the POI fetch an /analyze request makes: its coordinates
\* to five decimals, its radius and the tag filter of its business type
OwnKey(r) ==
    <<Round5(r.lat.v), Round5(r.lon.v), r.radius_m,
      get_poi_tags_for_business_type(r.business_type)>>

\* C25: a step of an /analyze request leaves the loaded model and its feature
\* encoder unchanged, leaves the request it serves unchanged, and changes no
\* cache entry other than the one for the request's own (rounded latitude,
\* rounded longitude, radius, tag filter) key.  (The category table is a
\* constant of the model.)
C25_OnlyOwnCacheEntryChanges ==
    [][ /\ ml' = ml
        /\ areq.pc = "fetching" => areq'.req = areq.req
        /\ \A k \in Keys :
              cache'[k] # cache[k] =>
                  (areq.pc = "fetching" /\ k = OwnKey(areq.req)) ]_vars

\* a gym request was answered after a live query whose answer was written to
\* the cache completely: its own entry is new, every other entry is the
\* unreadable file the directory started with
C25_Witness ==
    /\ areq.pc = "responded"
    /\ areq.req.business_type = s_Gym
    /\ areq.fetch.source = "live"
    /\ fill[OwnKey(areq.req)].ok
    /\ cache[OwnKey(areq.req)] # FileOf(0, <<TokOpen, TokJunk>>)
    /\ \A k \in Keys \ {OwnKey(areq.req)} : cache[k] = FileOf(0, <<TokOpen, TokJunk>>)


-----------------------------------------------------------------------------
(* The parse loop of fetch_pois_overpass (lines 356-371) on its own *)

MaxElements == 2

\* a node on the equator, a way whose centre lies on the prime meridian, and
\* a node at latitude 0 that also carries a centre
eEquator == [lat |-> Some(0), lon |-> Some(77594600), center |-> NoCenter,
             name |-> Some("Line"), type |-> Some("node")]
eMeridianWay == [lat |-> None, lon |-> None,
                 center |-> [lat |-> Some(51477900), lon |-> Some(0)],
                 name |-> None, type |-> Some("way")]
eEquatorCentred == [lat |-> Some(0), lon |-> Some(77594600),
                    center |-> [lat |-> Some(12971900), lon |-> Some(77594100)],
                    name |-> Some("Both"), type |-> Some("node")]

ParseElements == {eNode, eWay, eNoCoord, eNoType, eEquator, eMeridianWay, eEquatorCentred}

ParseInputs ==
    UNION { [1..n -> ParseElements] : n \in 0..MaxElements }

ParseRun(elements) ==
    [fn |-> "parse", elements |-> elements, called |-> FALSE, raised |-> FALSE,
     pois |-> <<>>]

\* lines 356-371: the loop runs over data["elements"]
ParseCall ==
    /\ conv.fn = "parse"
    /\ ~conv.called
    /\ conv' = [conv EXCEPT !.called = TRUE,
                            !.raised = ParseRaises(conv.elements),
                            !.pois = IF ParseRaises(conv.elements) THEN <<>>
                                     ELSE ParsePois(conv.elements)]
    /\ UNCHANGED <<now, requestsOk, workers, cache, proc, fill, ncalls, raster,
                   popMax, areq, ml, preq, obs>>

InitParse ==
    /\ now = 0
    /\ requestsOk = TRUE
    /\ workers = 1
    /\ cache = [k \in Keys |-> NoFile]
    /\ proc = [p \in Procs |-> IdleProc]
    /\ fill = [k \in Keys |-> NoFill]
    /\ ncalls = 0
    /\ conv \in { ParseRun(es) : es \in ParseInputs }
    /\ raster = NoRaster
    /\ popMax = EnvUnset
    /\ areq = NoRequest
    /\ ml = NoModel
    /\ preq = NoPrediction
    /\ obs = NoObserver

NextParse == ParseCall

SpecParse == InitParse /\ [][NextParse]_vars

\* the element carries a coordinate pair, direct or as a centre
CarriesPair(e) ==
    \/ e.lat.some /\ e.lon.some
    \/ e.center.lat.some /\ e.center.lon.some

\* the POI the element stands for: the direct pair, else the centre
StatedPoi(e) ==
    [lat |-> IF e.lat.some THEN e.lat.v ELSE e.center.lat.v,
     lon |-> IF e.lon.some THEN e.lon.v ELSE e.center.lon.v,
     name |-> IF e.name.some THEN e.name.v ELSE "Unnamed",
     type |-> e.type.v]

\* C26: the parse loop skips an element only if it has neither a direct nor a
\* centre coordinate pair; every element with a pair, also one whose latitude
\* or longitude is exactly 0, yields a POI with that coordinate, its name or
\* "Unnamed", and its geometry kind.
C26_ElementWithPairYieldsPoi ==
    (conv.fn = "parse" /\ conv.called /\ ~conv.raised) =>
        /\ Len(conv.pois) =
              Cardinality({ i \in 1..Len(conv.elements) : CarriesPair(conv.elements[i]) })
        /\ \A i \in 1..Len(conv.elements) :
              CarriesPair(conv.elements[i]) =>
                  \E j \in 1..Len(conv.pois) : conv.pois[j] = StatedPoi(conv.elements[i])


-----------------------------------------------------------------------------
(* A failed query and the cache *)

\* the POI fetch of the request being served follows a recorded answer for
\* the same key whose live query failed
FollowsQueryFailure ==
    /\ areq.pc = "fetching"
    /\ obs.runs # <<>>
    /\ AfterQueryFailure(obs.runs[Len(obs.runs)])
    /\ OwnKey(obs.runs[Len(obs.runs)].req) = OwnKey(areq.req)

\* C27 as stated: the step in which a live query fails changes no cache entry,
\* and the next call for the same key is not served from the cache: when it
\* ends it has issued a live query.
C27_FailureIsNotCached ==
    [][ /\ \A p \in Procs :
              (proc[p].pc = "query" /\ proc'[p].pc = "done"
                 /\ proc'[p].source \in QueryFailures) =>
                  \A k \in Keys : cache'[k] = cache[k]
        /\ (FollowsQueryFailure' /\ proc[1].pc # "done" /\ proc'[1].pc = "done") =>
              (proc'[1].source # "cache" /\ proc'[1].issued = 1) ]_vars

\* C27, amended: the step in which a live query fails changes no cache entry,
\* and the next call for the same key either issues a live query or is served
\* the readable content of an entry it found younger than the TTL (one the
\* failed call could not open), never a result the failure stored.
C27_FailureLeavesCacheAsItWas ==
    [][ /\ \A p \in Procs :
              (proc[p].pc = "query" /\ proc'[p].pc = "done"
                 /\ proc'[p].source \in QueryFailures) =>
                  \A k \in Keys : cache'[k] = cache[k]
        /\ (FollowsQueryFailure' /\ proc[1].pc # "done" /\ proc'[1].pc = "done") =>
              \/ proc'[1].issued = 1 /\ proc'[1].source # "cache"
              \/ /\ proc'[1].source = "cache"
                 /\ 0 <= proc'[1].age /\ proc'[1].age < CacheTTL
                 /\ JsonValid(cache'[OwnKey(areq'.req)].content)
                 /\ proc'[1].result = JsonLoad(cache'[OwnKey(areq'.req)].content) ]_vars

\* two requests for the same key, the live query failed for both, and the
\* key, which had no entry at the start, has none now
C27_Witness ==
    /\ Len(obs.runs) = 2
    /\ AfterQueryFailure(obs.runs[1])
    /\ AfterQueryFailure(obs.runs[2])
    /\ OwnKey(obs.runs[1].req) = OwnKey(obs.runs[2].req)
    /\ cache[OwnKey(obs.runs[1].req)] = NoFile


-----------------------------------------------------------------------------
(* The competition signal left out *)

\* C28: a request that does not ask for the competition signal, or lacks a
\* latitude or a longitude, is answered in the step in which it arrives, with
\* no POI fetch begun and no cache entry read or written; its competition
\* score is 45 (neither the 20 of an empty POI list nor the 55 of an
\* exception), its poi_count 0 and its POI list empty.
C28_NoSignalNoFetch ==
    [][ (/\ RequestArrives
         /\ ~(areq'.req.consider_competition /\ areq'.req.lat.some /\ areq'.req.lon.some)
         /\ areq'.pc \notin {"rejected", "failed"}) =>
            /\ areq'.pc = "responded"
            /\ UNCHANGED <<cache, fill, proc>>
            /\ areq'.fetch = NoFetch
            /\ areq'.response.scores.competition = 45
            /\ areq'.response.scores.competition \notin {NoPoiScore, FallbackCompetition}
            /\ areq'.response.debug.poi_count = 0
            /\ areq'.response.pois = <<>> ]_vars

\* answered without a fetch: a request with coordinates that does not ask for
\* the signal, while fresh cache entries exist and the network is up
C28_Witness ==
    /\ areq.pc = "responded"
    /\ ~areq.req.consider_competition
    /\ areq.req.lat.some /\ areq.req.lon.some
    /\ areq.response.scores.competition = 45
    /\ areq.response.debug.poi_count = 0
    /\ requestsOk
    /\ \A k \in Keys : cache[k].exists /\ JsonValid(cache[k].content)
    /\ \A p \in Procs : proc[p] = IdleProc


-----------------------------------------------------------------------------
(* The range of the risk score and the default opening hours *)

\* C29: calculate_risk_score returns a value between 40 and 100: the only
\* adjustment below zero is the -10 of a budget above the category's range,
\* and a risk of 40 or less is returned only when that -10 was made and no
\* adjustment above zero was.
C29_RiskBetween40And100 ==
    RiskCalled =>
        /\ 40 <= conv.risk /\ conv.risk <= 100
        /\ conv.risk <= 40 =>
              /\ conv.budget_lakh > 10 * StatedProfile.typ_budget[2]
              /\ StatedSeating = 0
              /\ StatedMarket = 0
              /\ conv.open_h.some => conv.open_h.v < 12

\* a cafe with 25.1 lakh, 15 seats, open 09:00-17:00, demand 41, competition 69
C29_Witness ==
    /\ RiskCalled
    /\ conv.business_type = s_cafe
    /\ conv.budget_lakh = 251 /\ conv.seating = 15
    /\ conv.sh = 9 /\ conv.eh = 17
    /\ conv.demand = 41 /\ conv.competition = 69
    /\ conv.risk = 40

\* C30: without an hours text, or with the empty text, calculate_risk_score
\* takes the hours to be 08:00-22:00: the span is 14 and 8 is added to the
\* risk.
C30_AbsentHoursAreDefaultHours ==
    (RiskCalled /\ (~conv.hours_str.some \/ conv.hours_str.v = <<>>)) =>
        /\ conv.open_h = Some(14)
        /\ conv.risk = Clamped(50 + StatedBudget + StatedSeating + StatedMarket + 8)

\* the empty text, nothing else adjusted: 50 + 8
C30_Witness ==
    /\ RiskCalled
    /\ conv.hours_str = Some(<<>>)
    /\ conv.budget_lakh = 100 /\ conv.demand = 41 /\ conv.competition = 69
    /\ conv.risk = 58

====
